---- MODULE Spec2Model ----
(***************************************************************************)
(* App Packaging Helper: documentation crawler, URL safety validators,     *)
(* analysis endpoints and packaging result builders.                       *)
(*                                                                         *)
(* The repository holds several competing backends.  Three analysis        *)
(* endpoints are modelled side by side:                                    *)
(*   "analyze" : backend/routes/analyze.js  + backend/lib/crawler.js       *)
(*               (validateUrl, fetchPage, extractRelevantLinks,            *)
(*               shallowCrawl)                                             *)
(*   "server"  : backend/server.js + backend/crawler.js                    *)
(*               (isHttpUrl, crawlAndAnalyze, crawlDocumentationPages,     *)
(*               fetchWithRetry)                                           *)
(*   "route"   : POST /analyzeApp router + crawlDocumentation + isUrlSafe  *)
(*               + lib/parser.js (buildPackagingResult)                    *)
(* Text is modelled as sequences of one-character strings so that          *)
(* startsWith / includes are computed, not assumed.                        *)
(***************************************************************************)
EXTENDS Integers, Sequences, FiniteSets, TLC

(***************************************************************************)
(* Text helpers                                                            *)
(***************************************************************************)
Digit == <<"0", "1", "2", "3", "4", "5", "6", "7", "8", "9">>

RECURSIVE Dec(_)
Dec(n) == IF n < 10 THEN <<Digit[n + 1]>>
          ELSE Dec(n \div 10) \o <<Digit[(n % 10) + 1]>>

StartsWith(s, p) == Len(p) <= Len(s) /\ SubSeq(s, 1, Len(p)) = p

EndsWith(s, p) == Len(p) <= Len(s) /\ SubSeq(s, Len(s) - Len(p) + 1, Len(s)) = p

Includes(s, p) == \E i \in 1..(Len(s) - Len(p) + 1) : SubSeq(s, i, i + Len(p) - 1) = p

Range(s) == {s[i] : i \in 1..Len(s)}

(***************************************************************************)
(* Host names, as URL.hostname reports them (lower case; an IPv6 literal   *)
(* keeps its brackets).                                                    *)
(***************************************************************************)
T_dot == <<".">>
T_localhost == <<"l", "o", "c", "a", "l", "h", "o", "s", "t">>
T_loopback == <<"1", "2", "7", ".", "0", ".", "0", ".", "1">>
T_anyaddr == <<"0", ".", "0", ".", "0", ".", "0">>
T_ip6loop == <<":", ":", "1">>
T_linklocal == <<"1", "6", "9", ".", "2", "5", "4", ".">>
T_ten == <<"1", "0", ".">>
T_172 == <<"1", "7", "2", ".">>
T_192168 == <<"1", "9", "2", ".", "1", "6", "8", ".">>

H_vendor == <<"v", "e", "n", "d", "o", "r", ".", "c", "o", "m">>
H_cdn == <<"c", "d", "n", ".", "n", "e", "t">>
H_ip6 == <<"[">> \o T_ip6loop \o <<"]">>
H_metadata == T_linklocal \o <<"1", "6", "9", ".", "2", "5", "4">>
H_ten == T_ten \o <<"0", ".", "0", ".", "5">>
H_tenName == T_ten \o <<"e", "x", ".", "i", "o">>
H_lan == T_192168 \o <<"1", ".", "1">>
H_localhostName == T_localhost \o <<".", "e", "x", ".", "i", "o">>
H_public100 == <<"1", "0", "0", ".", "1", ".", "2", ".", "3">>
H_172(n) == T_172 \o Dec(n) \o <<".", "0", ".", "1">>

\* second octets of the 172.x.0.1 inputs: the sixteen private blocks and
\* one public neighbour on each side
Octets172 == 15..32

NoHost == <<>>

Hosts ==
  {H_vendor, H_cdn, T_localhost, T_loopback, T_anyaddr, H_ip6, H_metadata, H_ten,
   H_tenName, H_lan, H_localhostName, H_public100}
  \cup {H_172(n) : n \in Octets172}

(***************************************************************************)
(* URL inputs.  kind = "absent" is a missing / empty field, "malformed" a  *)
(* string new URL() rejects, "url" a parsed URL.                           *)
(***************************************************************************)
MkUrl(scheme, host, path) == [kind |-> "url", scheme |-> scheme, host |-> host, path |-> path]
AbsentUrl == [kind |-> "absent", scheme |-> "", host |-> NoHost, path |-> <<"", 0>>]
MalformedUrl == [kind |-> "malformed", scheme |-> "", host |-> NoHost, path |-> <<"", 0>>]

HostSchemes == {"http:", "https:", "ftp:", "smb:"}
HostlessSchemes == {"file:", "data:", "javascript:"}

ValidatorInputs ==
  {MkUrl(s, h, <<"/", 0>>) : s \in HostSchemes, h \in Hosts}
  \cup {MkUrl(s, NoHost, <<"/", 0>>) : s \in HostlessSchemes}
  \cup {MalformedUrl}

(***************************************************************************)
(* backend/lib/crawler.js validateUrl                                      *)
(***************************************************************************)
blockedProtocols == {"file:", "ftp:", "smb:", "data:", "javascript:"}

blockedHosts_validateUrl ==
  <<T_localhost, T_loopback, T_anyaddr, T_ip6loop, T_ten>>
  \o [i \in 1..16 |-> T_172 \o Dec(15 + i) \o T_dot]
  \o <<T_192168>>

validateUrl(u) ==
  IF u.kind # "url" THEN FALSE
  ELSE IF u.scheme \in blockedProtocols THEN FALSE
  ELSE IF u.scheme \notin {"http:", "https:"} THEN FALSE
  ELSE ~ \E i \in 1..Len(blockedHosts_validateUrl) :
           \/ u.host = blockedHosts_validateUrl[i]
           \/ StartsWith(u.host, blockedHosts_validateUrl[i])

(***************************************************************************)
(* crawlDocumentation's isUrlSafe                                          *)
(***************************************************************************)
blockedHosts_isUrlSafe ==
  <<T_localhost, T_loopback, T_anyaddr, T_ip6loop, T_linklocal, T_ten,
    T_172 \o Dec(16) \o T_dot, T_192168>>

isUrlSafe(u) ==
  IF u.kind # "url" THEN FALSE
  ELSE IF u.scheme \notin {"http:", "https:"} THEN FALSE
  ELSE ~ \E i \in 1..Len(blockedHosts_isUrlSafe) : Includes(u.host, blockedHosts_isUrlSafe[i])

(***************************************************************************)
(* backend/server.js isHttpUrl                                             *)
(***************************************************************************)
isHttpUrl(u) ==
  IF u.kind = "absent" THEN FALSE
  ELSE IF u.kind = "malformed" THEN FALSE
  ELSE u.scheme = "http:" \/ u.scheme = "https:"

(***************************************************************************)
(* The web as the crawlers see it.  A URL path is <<name, number>>.  An    *)
(* anchor carries its resolved href and whether its URL or link text       *)
(* matches the crawler's keyword list.                                     *)
(***************************************************************************)
WideLinks == 11

P(name, k) == <<name, k>>
U_root == MkUrl("https:", H_vendor, P("/", 0))
U_install == MkUrl("https:", H_vendor, P("/install", 0))
U_deploy == MkUrl("https:", H_vendor, P("/deploy", 0))
U_about == MkUrl("https:", H_vendor, P("/about", 0))
U_ftp == MkUrl("ftp:", H_vendor, P("/install", 0))
U_offsite == MkUrl("https:", H_cdn, P("/deploy", 0))
U_doc(k) == MkUrl("https:", H_vendor, P("/docs", k))
U_localhost == MkUrl("http:", T_localhost, P("/", 0))
U_metadata == MkUrl("http:", H_metadata, P("/", 0))
U_private172 == MkUrl("http:", H_172(20), P("/", 0))
U_ftpRoot == MkUrl("ftp:", H_vendor, P("/", 0))
U_file == MkUrl("file:", NoHost, P("/etc", 0))

A(href, relevant) == [href |-> href, relevant |-> relevant]

Webs == {"cycle", "mixed", "wide", "leaf"}

Anchors(w, u) ==
  CASE w = "cycle" /\ u = U_root -> <<A(U_install, TRUE)>>
    [] w = "cycle" /\ u = U_install -> <<A(U_root, TRUE), A(U_deploy, TRUE)>>
    [] w = "cycle" /\ u = U_deploy -> <<A(U_install, TRUE), A(U_root, TRUE)>>
    [] w = "mixed" /\ u = U_root ->
         <<A(U_install, TRUE), A(U_offsite, TRUE), A(U_about, FALSE), A(U_ftp, TRUE),
           A(U_install, TRUE), A(MalformedUrl, TRUE), A(U_deploy, TRUE)>>
    [] w = "mixed" /\ u = U_install -> <<A(U_deploy, TRUE), A(U_root, TRUE)>>
    [] w = "wide" /\ u = U_root -> [k \in 1..WideLinks |-> A(U_doc(k), TRUE)]
    [] OTHER -> <<>>

FetchOutcomes == {"ok", "http_error", "non_html", "net_error"}

Has(s, x) == \E i \in 1..Len(s) : s[i] = x

(***************************************************************************)
(* backend/lib/crawler.js extractRelevantLinks: a Set filled in anchor     *)
(* order, same hostname only, at most 20 entries.                          *)
(***************************************************************************)
MAX_LINKS == 20

RECURSIVE lib_collectLinks(_, _, _, _)
lib_collectLinks(anchors, i, base, links) ==
  IF i > Len(anchors) THEN links
  ELSE LET a == anchors[i]
           keep == /\ a.href.kind = "url"
                   /\ a.href.host = base.host
                   /\ a.relevant
                   /\ Len(links) < MAX_LINKS
                   /\ ~Has(links, a.href)
       IN lib_collectLinks(anchors, i + 1, base, IF keep THEN Append(links, a.href) ELSE links)

lib_extractRelevantLinks(w, baseUrl) == lib_collectLinks(Anchors(w, baseUrl), 1, baseUrl, <<>>)

(***************************************************************************)
(* crawlDocumentation's extractRelevantLinks: same hostname, http/https,   *)
(* keyword match, duplicates removed keeping first occurrence.             *)
(***************************************************************************)
RECURSIVE doc_collectLinks(_, _, _, _)
doc_collectLinks(anchors, i, allowedHostname, links) ==
  IF i > Len(anchors) THEN links
  ELSE LET a == anchors[i]
           keep == /\ a.href.kind = "url"
                   /\ a.href.host = allowedHostname
                   /\ a.href.scheme \in {"http:", "https:"}
                   /\ a.relevant
                   /\ ~Has(links, a.href)
       IN doc_collectLinks(anchors, i + 1, allowedHostname,
                           IF keep THEN Append(links, a.href) ELSE links)

doc_extractRelevantLinks(w, baseUrl, allowedHostname) ==
  doc_collectLinks(Anchors(w, baseUrl), 1, allowedHostname, <<>>)

(***************************************************************************)
(* backend/crawler.js crawlDocumentationPages: documentation links of the  *)
(* main page, any host, scheme starting with "http", not yet visited; no   *)
(* de-duplication; the caller takes the first five.                        *)
(***************************************************************************)
MAX_DOC_LINKS == 5

RECURSIVE pages_collectLinks(_, _, _, _)
pages_collectLinks(anchors, i, seen, links) ==
  IF i > Len(anchors) THEN links
  ELSE LET a == anchors[i]
           keep == /\ a.relevant
                   /\ a.href.kind = "url"
                   /\ a.href.scheme \in {"http:", "https:"}
                   /\ a.href \notin seen
       IN pages_collectLinks(anchors, i + 1, seen, IF keep THEN Append(links, a.href) ELSE links)

pages_docLinks(w, pageUrl, seen) ==
  LET all == pages_collectLinks(Anchors(w, pageUrl), 1, seen, <<>>)
  IN SubSeq(all, 1, IF Len(all) < MAX_DOC_LINKS THEN Len(all) ELSE MAX_DOC_LINKS)

(***************************************************************************)
(* More text helpers: case folding, tokens, character classes              *)
(***************************************************************************)
UpperChars ==
  <<"A", "B", "C", "D", "E", "F", "G", "H", "I", "J", "K", "L", "M", "N", "O", "P", "Q", "R",
    "S", "T", "U", "V", "W", "X", "Y", "Z">>
LowerChars ==
  <<"a", "b", "c", "d", "e", "f", "g", "h", "i", "j", "k", "l", "m", "n", "o", "p", "q", "r",
    "s", "t", "u", "v", "w", "x", "y", "z">>

LowerChar(c) ==
  IF \E k \in 1..26 : UpperChars[k] = c
    THEN LowerChars[CHOOSE k \in 1..26 : UpperChars[k] = c]
    ELSE c

toLowerCase(s) == [i \in 1..Len(s) |-> LowerChar(s[i])]

Letters == Range(UpperChars) \cup Range(LowerChars)
WordChars == Letters \cup Range(Digit) \cup {"_"}

\* lastIndexOf: 0 when absent (JavaScript's -1)
lastIndexOf(s, c) ==
  IF \E i \in 1..Len(s) : s[i] = c
    THEN CHOOSE i \in 1..Len(s) : s[i] = c /\ \A j \in (i + 1)..Len(s) : s[j] # c
    ELSE 0

\* split(/\s+/) without empty tokens
RECURSIVE splitFrom(_, _, _, _)
splitFrom(s, i, tok, acc) ==
  IF i > Len(s) THEN (IF tok = <<>> THEN acc ELSE Append(acc, tok))
  ELSE IF s[i] = " " THEN splitFrom(s, i + 1, <<>>, IF tok = <<>> THEN acc ELSE Append(acc, tok))
  ELSE splitFrom(s, i + 1, Append(tok, s[i]), acc)

Tokens(s) == splitFrom(s, 1, <<>>, <<>>)

RECURSIVE Join(_, _)
Join(lines, sep) ==
  IF Len(lines) = 0 THEN <<>>
  ELSE IF Len(lines) = 1 THEN lines[1]
  ELSE lines[1] \o sep \o Join(Tail(lines), sep)

RECURSIVE Flatten(_)
Flatten(ss) == IF Len(ss) = 0 THEN <<>> ELSE Head(ss) \o Flatten(Tail(ss))

\* a nullable string: JavaScript null / undefined against a string value
Str(t) == [isNull |-> FALSE, v |-> t]
Null == [isNull |-> TRUE, v |-> <<>>]

S_silent == <<"s", "i", "l", "e", "n", "t">>
S_quiet == <<"q", "u", "i", "e", "t">>
S_unattended == <<"u", "n", "a", "t", "t", "e", "n", "d", "e", "d">>
S_msiexec == <<"m", "s", "i", "e", "x", "e", "c">>
S_install == <<"i", "n", "s", "t", "a", "l", "l">>
S_setup == <<"s", "e", "t", "u", "p">>
S_uninstall == <<"u", "n", "i", "n", "s", "t", "a", "l", "l">>
S_remove == <<"r", "e", "m", "o", "v", "e">>
S_slashI == <<"/", "i">>
S_slashX == <<"/", "x">>
S_exe == <<".", "e", "x", "e">>
S_msi == <<".", "m", "s", "i">>
S_msix == <<".", "m", "s", "i", "x">>
S_appx == <<".", "a", "p", "p", "x">>
S_zip == <<".", "z", "i", "p">>
S_7z == <<".", "7", "z">>
S_rar == <<".", "r", "a", "r">>
S_targz == <<".", "t", "a", "r", ".", "g", "z">>
S_tgz == <<".", "t", "g", "z">>
F_setup == <<"s", "e", "t", "u", "p", ".", "e", "x", "e">>
F_app == <<"a", "p", "p", "-", "1", ".", "2", ".", "3", ".", "m", "s", "i">>
F_bundle == <<"b", "u", "n", "d", "l", "e", ".", "z", "i", "p">>
F_tarball == <<"p", "k", "g", ".", "t", "a", "r", ".", "g", "z">>
F_tool == <<"t", "o", "o", "l", ".", "b", "i", "n">>
F_none == <<>>

(***************************************************************************)
(* Fixed strings of the result builders, and the documentation lines the   *)
(* modelled pages carry                                                    *)
(***************************************************************************)
S_msiInstallPrefix == <<"m", "s", "i", "e", "x", "e", "c", " ", "/", "i", " ", "\"">>
S_msiInstallSuffix ==
  <<"\"", " ", "/", "q", "n", " ", "/", "n", "o", "r", "e", "s", "t", "a", "r", "t">>
S_quote == <<"\"">>
S_exeFallbackSuffix == <<"\"", " ", "/", "S">>
S_msiPlaceholderUninstall ==
  <<"m", "s", "i", "e", "x", "e", "c", " ", "/", "x", " ", "{", "P", "R", "O", "D", "U", "C",
    "T", "-", "C", "O", "D", "E", "-", "G", "O", "E", "S", "-", "H", "E", "R", "E", "}", " ",
    "/", "q", "n", " ", "/", "n", "o", "r", "e", "s", "t", "a", "r", "t">>
S_placeholder ==
  <<"{", "P", "R", "O", "D", "U", "C", "T", "-", "C", "O", "D", "E", "-", "G", "O", "E", "S",
    "-", "H", "E", "R", "E", "}">>
S_exeUninstallHint ==
  <<"C", "h", "e", "c", "k", " ", "r", "e", "g", "i", "s", "t", "r", "y", ":", " ", "H", "K",
    "L", "M", "\\", "S", "O", "F", "T", "W", "A", "R", "E", "\\", "M", "i", "c", "r", "o", "s",
    "o", "f", "t", "\\", "W", "i", "n", "d", "o", "w", "s", "\\", "C", "u", "r", "r", "e", "n",
    "t", "V", "e", "r", "s", "i", "o", "n", "\\", "U", "n", "i", "n", "s", "t", "a", "l", "l">>
S_archiveInstall ==
  <<"N", "/", "A", " ", "-", " ", "T", "h", "i", "s", " ", "i", "s", " ", "a", "n", " ", "a",
    "r", "c", "h", "i", "v", "e", " ", "f", "i", "l", "e", ",", " ", "n", "o", "t", " ", "a",
    "n", " ", "i", "n", "s", "t", "a", "l", "l", "e", "r">>
S_na == <<"N", "/", "A">>
S_unknownInstall ==
  <<"U", "n", "a", "b", "l", "e", " ", "t", "o", " ", "d", "e", "t", "e", "r", "m", "i", "n",
    "e", " ", "-", " ", "m", "a", "n", "u", "a", "l", " ", "i", "n", "v", "e", "s", "t", "i",
    "g", "a", "t", "i", "o", "n", " ", "r", "e", "q", "u", "i", "r", "e", "d">>
S_unknownUninstall ==
  <<"U", "n", "a", "b", "l", "e", " ", "t", "o", " ", "d", "e", "t", "e", "r", "m", "i", "n",
    "e">>
S_programFilesEnv ==
  <<"%", "P", "r", "o", "g", "r", "a", "m", "F", "i", "l", "e", "s", "%", "\\">>
S_backslash == <<"\\">>
S_application == <<"A", "p", "p", "l", "i", "c", "a", "t", "i", "o", "n">>
L_setupSilent == <<"s", "e", "t", "u", "p", ".", "e", "x", "e", " ", "/", "S">>
L_setupVerySilent ==
  <<"\"", "s", "e", "t", "u", "p", ".", "e", "x", "e", "\"", " ", "/", "V", "E", "R", "Y", "S",
    "I", "L", "E", "N", "T", " ", "/", "N", "O", "R", "E", "S", "T", "A", "R", "T">>
L_otherQuiet ==
  <<"o", "t", "h", "e", "r", ".", "e", "x", "e", " ", "/", "q", "u", "i", "e", "t">>
L_msiInstall ==
  <<"m", "s", "i", "e", "x", "e", "c", " ", "/", "i", " ", "a", "p", "p", "-", "1", ".", "2",
    ".", "3", ".", "m", "s", "i", " ", "/", "q", "n">>
L_msiUninstall ==
  <<"m", "s", "i", "e", "x", "e", "c", " ", "/", "x", " ", "{", "A", "1", "B", "2", "C", "3",
    "D", "4", "-", "0", "0", "0", "0", "-", "1", "1", "1", "1", "-", "2", "2", "2", "2", "-",
    "3", "3", "3", "3", "4", "4", "4", "4", "5", "5", "5", "5", "}", " ", "/", "q", "n">>
L_uninstallExe ==
  <<"u", "n", "i", "n", "s", "t", "a", "l", "l", ".", "e", "x", "e", " ", "/", "S">>
L_setupInstall ==
  <<"s", "e", "t", "u", "p", ".", "e", "x", "e", " ", "/", "i", "n", "s", "t", "a", "l", "l">>
L_prose ==
  <<"s", "e", "e", " ", "t", "h", "e", " ", "a", "d", "m", "i", "n", " ", "g", "u", "i", "d",
    "e">>

\* page text, one entry per line of a code block or paragraph
Lines(w, u) ==
  CASE w = "cycle" /\ u = U_install -> <<L_prose, L_setupSilent>>
    [] w = "cycle" /\ u = U_deploy -> <<L_uninstallExe, L_setupVerySilent>>
    [] w = "mixed" /\ u = U_root -> <<L_prose>>
    [] w = "mixed" /\ u = U_install -> <<L_msiInstall, L_msiUninstall>>
    [] w = "mixed" /\ u = U_deploy -> <<L_otherQuiet>>
    [] w = "plain" /\ u = U_root -> <<L_setupInstall>>
    [] OTHER -> <<>>

PageLines(w, page) == IF page.isHtml THEN Lines(w, page.url) ELSE <<>>

\* download links of a page: they point at the CDN and read "Download"
U_dl(name) == MkUrl("https:", H_cdn, P(name, 0))

InstallerLinks(w, u) ==
  CASE w = "cycle" /\ u = U_root -> <<[url |-> U_dl("/setup.exe"), filename |-> F_setup]>>
    [] w = "mixed" /\ u = U_root ->
         <<[url |-> U_dl("/app-1.2.3.msi"), filename |-> F_app],
           [url |-> U_dl("/setup.exe"), filename |-> F_setup]>>
    [] w = "mixed" /\ u = U_install -> <<[url |-> U_dl("/setup.exe"), filename |-> F_setup]>>
    [] w = "wide" /\ u = U_root -> <<[url |-> U_dl("/setup.exe"), filename |-> F_setup]>>
    [] OTHER -> <<>>

(***************************************************************************)
(* Recommendation records                                                  *)
(***************************************************************************)
Rule(type, path, heuristic, productCode) ==
  [isNull |-> FALSE, type |-> type, path |-> path, heuristic |-> heuristic,
   productCode |-> productCode]
NullRule ==
  [isNull |-> TRUE, type |-> "", path |-> Null, heuristic |-> FALSE, productCode |-> Null]

Confidence(overall, installCommand, uninstallCommand, detection) ==
  [overall |-> overall, installCommand |-> installCommand,
   uninstallCommand |-> uninstallCommand, detection |-> detection]

Recommendation(filename, kind, install, uninstall, rule, confidence, warnings, pageUrls, notes) ==
  [filename |-> filename, installerType |-> kind, silentInstallCommand |-> install,
   uninstallCommand |-> uninstall, detectionRule |-> rule, confidence |-> confidence,
   warnings |-> warnings, sourcePages |-> pageUrls, notes |-> notes]

(***************************************************************************)
(* Regular expressions of backend/crawler.js, matched token by token       *)
(***************************************************************************)
NameChars == WordChars \cup {"-", "."}

stripQuotes(t) ==
  LET a == IF Len(t) > 0 /\ t[1] \in {"\"", "'"} THEN 2 ELSE 1
      b == IF Len(t) >= a /\ t[Len(t)] \in {"\"", "'"} THEN Len(t) - 1 ELSE Len(t)
  IN SubSeq(t, a, b)

\* ["']?[\w\-\.]+\.exe["']?  as the tail of a token
isExeToken(t) ==
  LET n == stripQuotes(t)
  IN /\ Len(n) > Len(S_exe)
     /\ EndsWith(toLowerCase(n), S_exe)
     /\ n[Len(n) - Len(S_exe)] \in NameChars

\* (\/\w+|--\w+|-\w+)  as the head of a token; <<>> when it does not match
RECURSIVE wordRun(_, _)
wordRun(t, i) == IF i <= Len(t) /\ t[i] \in WordChars THEN <<t[i]>> \o wordRun(t, i + 1) ELSE <<>>

switchHead(t) ==
  IF Len(t) >= 2 /\ t[1] = "/" /\ t[2] \in WordChars THEN <<"/">> \o wordRun(t, 2)
  ELSE IF Len(t) >= 3 /\ t[1] = "-" /\ t[2] = "-" /\ t[3] \in WordChars
    THEN <<"-", "-">> \o wordRun(t, 3)
  ELSE IF Len(t) >= 2 /\ t[1] = "-" /\ t[2] \in WordChars THEN <<"-">> \o wordRun(t, 2)
  ELSE <<>>

\* first match of the .exe pattern in one line, Null when none
exePatternMatch(line) ==
  LET toks == Tokens(line)
      hits == {k \in 1..(Len(toks) - 1) : isExeToken(toks[k]) /\ switchHead(toks[k + 1]) # <<>>}
  IN IF hits = {} THEN Null
     ELSE LET k == CHOOSE h \in hits : \A g \in hits : h <= g
          IN Str(toks[k] \o <<" ">> \o switchHead(toks[k + 1]))

\* first match of the msiexec pattern in one line, Null when none
msiPatternMatch(line) ==
  LET toks == Tokens(line)
      low(k) == toLowerCase(toks[k])
      hits == {k \in 1..(Len(toks) - 3) :
                 /\ EndsWith(low(k), S_msiexec)
                 /\ Len(toks[k + 1]) >= 2 /\ toks[k + 1][1] = "/"
                 /\ toks[k + 1] = <<"/">> \o wordRun(toks[k + 1], 2)
                 /\ EndsWith(toLowerCase(stripQuotes(toks[k + 2])), S_msi)
                 /\ Len(switchHead(toks[k + 3])) >= 2 /\ toks[k + 3][1] = "/"}
  IN IF hits = {} THEN Null
     ELSE LET k == CHOOSE h \in hits : \A g \in hits : h <= g
          IN Str(S_msiexec \o <<" ">> \o toks[k + 1] \o <<" ">> \o toks[k + 2] \o <<" ">>
                 \o switchHead(toks[k + 3]))

firstMatch(lines, Match(_)) ==
  LET hits == {i \in 1..Len(lines) : ~Match(lines[i]).isNull}
  IN IF hits = {} THEN Null
     ELSE Match(lines[CHOOSE h \in hits : \A g \in hits : h <= g])

\* backend/crawler.js extractSilentCommandFromDocs over the joined page text
crawler_extractSilentCommandFromDocs(filename, docLines) ==
  IF Flatten(docLines) = <<>> THEN Null
  ELSE IF ~ \E i \in 1..Len(docLines) :
              \E kw \in {S_silent, S_quiet, S_unattended} : Includes(toLowerCase(docLines[i]), kw)
    THEN Null
  ELSE IF ~firstMatch(docLines, exePatternMatch).isNull
    THEN firstMatch(docLines, exePatternMatch)
  ELSE firstMatch(docLines, msiPatternMatch)

(***************************************************************************)
(* backend/crawler.js crawlAndAnalyze: one recommendation per request,     *)
(* by installer kind                                                       *)
(***************************************************************************)
\* backend/crawler.js classifyInstaller, for a plain file name (new URL()
\* throws on it, so baseName is the name itself)
\* classifyInstaller with .msi sent down the .exe path
classifyInstaller_msiAsExe(filename) ==
  LET dotIndex == lastIndexOf(filename, ".")
      extension == IF dotIndex # 0 THEN SubSeq(filename, dotIndex, Len(filename)) ELSE <<>>
      baseName == IF dotIndex # 0 THEN SubSeq(filename, 1, dotIndex - 1) ELSE filename
      kind == IF extension \in {S_msi, S_exe} THEN "EXE"
              ELSE IF extension \in {S_zip, S_7z, S_rar, S_targz, S_tgz} THEN "ARCHIVE"
              ELSE "UNKNOWN"
  IN [kind |-> kind, extension |-> extension, baseName |-> baseName]

classifyInstaller(filename) ==
  LET dotIndex == lastIndexOf(filename, ".")
      extension == IF dotIndex # 0 THEN SubSeq(filename, dotIndex, Len(filename)) ELSE <<>>
      baseName == IF dotIndex # 0 THEN SubSeq(filename, 1, dotIndex - 1) ELSE filename
      kind == IF extension = S_msi THEN "MSI"
              ELSE IF extension = S_exe THEN "EXE"
              ELSE IF extension \in {S_zip, S_7z, S_rar, S_targz, S_tgz} THEN "ARCHIVE"
              ELSE "UNKNOWN"
  IN [kind |-> kind, extension |-> extension, baseName |-> baseName]

classifyKind(filename) == classifyInstaller(filename).kind

RECURSIVE digitsRun(_, _)
digitsRun(s, i) == IF i <= Len(s) /\ s[i] \in Range(Digit) THEN 1 + digitsRun(s, i + 1) ELSE 0

\* replace(/\d+\.\d+(\.\d+)?/g, '')
RECURSIVE stripVersions(_, _)
stripVersions(s, i) ==
  IF i > Len(s) THEN <<>>
  ELSE LET d1 == digitsRun(s, i)
           j == i + d1 + 1
           d2 == digitsRun(s, j)
           k == j + d2 + 1
           d3 == digitsRun(s, k)
       IN IF d1 > 0 /\ i + d1 <= Len(s) /\ s[i + d1] = "." /\ d2 > 0
            THEN IF j + d2 <= Len(s) /\ s[j + d2] = "." /\ d3 > 0
                   THEN stripVersions(s, k + d3)
                   ELSE stripVersions(s, j + d2)
            ELSE <<s[i]>> \o stripVersions(s, i + 1)

RECURSIVE trim(_)
trim(s) ==
  IF Len(s) > 0 /\ s[1] = " " THEN trim(Tail(s))
  ELSE IF Len(s) > 0 /\ s[Len(s)] = " " THEN trim(SubSeq(s, 1, Len(s) - 1))
  ELSE s

dashesToSpaces(s) == [i \in 1..Len(s) |-> IF s[i] \in {"-", "_"} THEN " " ELSE s[i]]

crawler_appName(baseName) ==
  LET n == trim(stripVersions(dashesToSpaces(baseName), 1))
  IN IF n = <<>> THEN S_application ELSE n

PageUrlSeq(ps) == [i \in 1..Len(ps) |-> ps[i].url]

crawlAndAnalyze_MSI(fullFilename) ==
  Recommendation(fullFilename, "MSI",
    Str(S_msiInstallPrefix \o fullFilename \o S_msiInstallSuffix),
    Str(S_msiPlaceholderUninstall),
    Rule("msi", Null, FALSE, Null),
    Confidence("HIGH", "HIGH", "MEDIUM", "N/A"),
    <<"ProductCode could not be extracted automatically in this environment.",
      "Replace {PRODUCT-CODE-GOES-HERE} with the actual MSI ProductCode.",
      "You can find the ProductCode by opening the MSI in Orca or running: Get-AppLockerFileInformation">>,
    <<>>,
    <<"MSI installers use the Windows Installer service and follow standardized installation patterns.",
      "The /qn switch provides a fully silent installation with no user interface.",
      "The /norestart switch prevents automatic system restart after installation.",
      "For enterprise deployment, always use the ProductCode for detection and uninstallation.">>)

crawlAndAnalyze_EXE(fullFilename, baseName, ps, w) ==
  LET docLines == Flatten([i \in 1..Len(ps) |-> PageLines(w, ps[i])])
      extractedCommand == crawler_extractSilentCommandFromDocs(fullFilename, docLines)
      found == ~extractedCommand.isNull
      appName == crawler_appName(baseName)
  IN Recommendation(fullFilename, "EXE",
       IF found THEN extractedCommand
       ELSE Str(S_quote \o fullFilename \o S_exeFallbackSuffix),
       Str(S_exeUninstallHint),
       Rule("file", Str(S_programFilesEnv \o appName \o S_backslash \o appName \o S_exe),
            FALSE, Null),
       Confidence(IF found THEN "HIGH" ELSE "LOW", IF found THEN "HIGH" ELSE "LOW", "LOW", "LOW"),
       IF found THEN <<>>
       ELSE <<"No explicit silent install command found in vendor documentation.",
              "Using generic fallback: /S (NSIS/Inno Setup default)",
              "Common alternatives to try: /SILENT, /VERYSILENT, /quiet, /qn">>,
       PageUrlSeq(ps),
       <<>>)

\* an archive answered like an unrecognised file
crawlAndAnalyze_ARCHIVE_asUnknown(fullFilename) ==
  Recommendation(fullFilename, "ARCHIVE", Str(S_unknownInstall), Str(S_unknownUninstall),
    NullRule,
    Confidence("LOW", "LOW", "LOW", "LOW"),
    <<"Installer type could not be determined.", "Manual investigation required.">>,
    <<>>,
    <<>>)

crawlAndAnalyze_ARCHIVE(fullFilename) ==
  Recommendation(fullFilename, "ARCHIVE", Str(S_archiveInstall), Str(S_na),
    Rule("archive", Null, FALSE, Null),
    Confidence("N/A", "N/A", "N/A", "N/A"),
    <<>>,
    <<>>,
    <<"This is an archive file, not a traditional installer.",
      "Possible scenarios: Portable application, contains installer, source code",
      "Extract the archive to examine contents and identify the actual installation method.">>)

crawlAndAnalyze_UNKNOWN(fullFilename) ==
  Recommendation(fullFilename, "UNKNOWN", Str(S_unknownInstall), Str(S_unknownUninstall),
    NullRule,
    Confidence("LOW", "LOW", "LOW", "LOW"),
    <<"Installer type could not be determined.", "Manual investigation required.">>,
    <<>>,
    <<>>)

\* the packaging list crawlAndAnalyze returns; ps are the pages
\* crawlDocumentationPages collected (EXE only)
crawlAndAnalyze(filename, ps, w) ==
  LET c == classifyInstaller(filename)
      fullFilename == c.baseName \o c.extension
  IN CASE c.kind = "MSI" -> <<crawlAndAnalyze_MSI(fullFilename)>>
       [] c.kind = "EXE" -> <<crawlAndAnalyze_EXE(fullFilename, c.baseName, ps, w)>>
       [] c.kind = "ARCHIVE" -> <<crawlAndAnalyze_ARCHIVE(fullFilename)>>
       [] OTHER -> <<crawlAndAnalyze_UNKNOWN(fullFilename)>>

(***************************************************************************)
(* lib/parser.js: extractInstallers, extractCommandsFromDocs,              *)
(* parseCommand, inferDetectionRules, buildPackagingResult                 *)
(***************************************************************************)
S_programFilesC ==
  <<"C", ":", "\\", "P", "r", "o", "g", "r", "a", "m", " ", "F", "i", "l", "e", "s", "\\">>
S_uninstallKey ==
  <<"S", "O", "F", "T", "W", "A", "R", "E", "\\", "M", "i", "c", "r", "o", "s", "o", "f", "t",
    "\\", "W", "i", "n", "d", "o", "w", "s", "\\", "C", "u", "r", "r", "e", "n", "t", "V", "e",
    "r", "s", "i", "o", "n", "\\", "U", "n", "i", "n", "s", "t", "a", "l", "l", "\\">>
S_msiUninstallPrefix == <<"m", "s", "i", "e", "x", "e", "c", " ", "/", "x", " ">>
S_msiUninstallQuoted == <<"m", "s", "i", "e", "x", "e", "c", " ", "/", "x", " ", "\"">>
S_quietNoRestart ==
  <<" ", "/", "q", "n", " ", "/", "n", "o", "r", "e", "s", "t", "a", "r", "t">>
S_dashInstaller == <<"-", "i", "n", "s", "t", "a", "l", "l", "e", "r">>
S_underInstall == <<"_", "i", "n", "s", "t", "a", "l", "l">>
S_dashSetup == <<"-", "s", "e", "t", "u", "p">>
S_underSetup == <<"_", "s", "e", "t", "u", "p">>
S_dashInstall == <<"-", "i", "n", "s", "t", "a", "l", "l">>
S_qn == <<"/", "q", "n">>
S_slashQuiet == <<"/", "q", "u", "i", "e", "t">>
S_slashSilent == <<"/", "s", "i", "l", "e", "n", "t">>
S_slashS == <<"/", "s">>
S_verysilent == <<"/", "v", "e", "r", "y", "s", "i", "l", "e", "n", "t">>

HexChars == Range(Digit) \cup {"a", "b", "c", "d", "e", "f", "A", "B", "C", "D", "E", "F"}
PathStop == {" ", "\"", "<", ">", "|"}

\* does pattern p occur in s at position i, ignoring case
MatchAtCI(s, i, p) ==
  i >= 1 /\ i + Len(p) - 1 <= Len(s) /\ toLowerCase(SubSeq(s, i, i + Len(p) - 1)) = toLowerCase(p)

\* /\w+\.ext/i
hasWordDotExt(s, ext) == \E i \in 2..Len(s) : MatchAtCI(s, i, ext) /\ s[i - 1] \in WordChars

\* /\/[A-Za-z]/
hasSlashSwitch(s) == \E i \in 1..(Len(s) - 1) : s[i] = "/" /\ s[i + 1] \in Letters

\* /--\w+/
hasDashDashSwitch(s) ==
  \E i \in 1..(Len(s) - 2) : s[i] = "-" /\ s[i + 1] = "-" /\ s[i + 2] \in WordChars

isCommandLine(line) ==
  LET lower == toLowerCase(line)
      hasExecutable == \/ Includes(lower, S_msiexec)
                       \/ hasWordDotExt(line, S_exe)
                       \/ hasWordDotExt(line, S_msi)
      hasSwitches == hasSlashSwitch(line) \/ hasDashDashSwitch(line)
  IN hasExecutable /\ hasSwitches

extractSwitches(command) ==
  SelectSeq(Tokens(command), LAMBDA t : t[1] = "/" \/ t[1] = "-")

RECURSIVE pathRun(_, _)
pathRun(s, i) == IF i <= Len(s) /\ s[i] \notin PathStop THEN 1 + pathRun(s, i + 1) ELSE 0

\* /[A-Z]:\\(?:[^\s"<>|]+)/gi
RECURSIVE drivePaths(_, _)
drivePaths(s, i) ==
  IF i > Len(s) THEN <<>>
  ELSE IF /\ i + 3 <= Len(s)
          /\ s[i] \in Letters /\ s[i + 1] = ":" /\ s[i + 2] = "\\"
          /\ pathRun(s, i + 3) > 0
    THEN <<SubSeq(s, i, i + 2 + pathRun(s, i + 3))>> \o drivePaths(s, i + 3 + pathRun(s, i + 3))
  ELSE drivePaths(s, i + 1)

RECURSIVE notPercentRun(_, _)
notPercentRun(s, i) == IF i <= Len(s) /\ s[i] # "%" THEN 1 + notPercentRun(s, i + 1) ELSE 0

\* /%[^%]+%\\(?:[^\s"<>|]+)/gi
RECURSIVE envPaths(_, _)
envPaths(s, i) ==
  IF i > Len(s) THEN <<>>
  ELSE LET n == notPercentRun(s, i + 1)
           j == i + 1 + n
       IN IF /\ s[i] = "%" /\ n > 0
             /\ j + 1 <= Len(s) /\ s[j] = "%" /\ s[j + 1] = "\\"
             /\ pathRun(s, j + 2) > 0
            THEN <<SubSeq(s, i, j + 1 + pathRun(s, j + 2))>>
                 \o envPaths(s, j + 2 + pathRun(s, j + 2))
            ELSE envPaths(s, i + 1)

RECURSIVE uniq(_)
uniq(s) ==
  IF Len(s) = 0 THEN <<>>
  ELSE LET front == uniq(SubSeq(s, 1, Len(s) - 1))
       IN IF Has(front, s[Len(s)]) THEN front ELSE Append(front, s[Len(s)])

extractWindowsPaths(text) == uniq(drivePaths(text, 1) \o envPaths(text, 1))


parseCommand(raw, pageUrl) ==
  LET lower == toLowerCase(raw)
      type == IF Includes(lower, S_msiexec) THEN "msi"
              ELSE IF hasWordDotExt(raw, S_exe) THEN "exe"
              ELSE IF hasWordDotExt(raw, S_msi) THEN "msi"
              ELSE "unknown"
      inferredRole ==
        IF Includes(lower, S_slashI) \/ Includes(lower, S_install) \/ Includes(lower, S_setup)
          THEN "install"
        ELSE IF Includes(lower, S_slashX) \/ Includes(lower, S_uninstall)
                \/ Includes(lower, S_remove)
          THEN "uninstall"
        ELSE "other"
  IN [raw |-> trim(raw), type |-> type, pageUrl |-> pageUrl, inferredRole |-> inferredRole,
      switches |-> extractSwitches(raw), possiblePaths |-> extractWindowsPaths(raw)]

\* the code-block pass of extractCommandsFromDocs; the plain-text pass
\* re-reads the same lines with a stricter test and skips known raw text
RECURSIVE pageCommands(_, _, _)
pageCommands(lines, i, pageUrl) ==
  IF i > Len(lines) THEN <<>>
  ELSE LET trimmed == trim(lines[i])
       IN (IF Len(trimmed) >= 5 /\ isCommandLine(trimmed)
             THEN <<parseCommand(trimmed, pageUrl)>> ELSE <<>>)
          \o pageCommands(lines, i + 1, pageUrl)

extractCommandsFromDocs(ps, w) ==
  Flatten([k \in 1..Len(ps) |-> pageCommands(PageLines(w, ps[k]), 1, ps[k].url)])

installerType(filename) ==
  LET lower == toLowerCase(filename)
  IN IF EndsWith(lower, S_exe) THEN "exe"
     ELSE IF EndsWith(lower, S_msi) THEN "msi"
     ELSE IF EndsWith(lower, S_msix) THEN "msix"
     ELSE IF EndsWith(lower, S_appx) THEN "appx"
     ELSE "none"

\* anchors whose URL ends in an installer extension, first sighting of each URL
RECURSIVE collectInstallers(_, _, _, _, _)
collectInstallers(ps, k, j, w, acc) ==
  IF k > Len(ps) THEN acc
  ELSE LET found == IF ps[k].isHtml THEN InstallerLinks(w, ps[k].url) ELSE <<>>
       IN IF j > Len(found) THEN collectInstallers(ps, k + 1, 1, w, acc)
          ELSE LET f == found[j]
                   seen == \E n \in 1..Len(acc) : acc[n].url = f.url
                   rec == [url |-> f.url, filename |-> f.filename,
                           type |-> installerType(f.filename), sourcePages |-> <<ps[k].url>>]
               IN collectInstallers(ps, k, j + 1, w,
                    IF seen \/ installerType(f.filename) = "none" THEN acc ELSE Append(acc, rec))

extractInstallers(ps, w) == collectInstallers(ps, 1, 1, w, <<>>)

isGuidAt(s, i) ==
  /\ i + 37 <= Len(s)
  /\ s[i] = "{" /\ s[i + 37] = "}"
  /\ \A k \in 1..36 : IF k \in {9, 14, 19, 24} THEN s[i + k] = "-" ELSE s[i + k] \in HexChars

extractGuid(text) ==
  LET hits == {i \in 1..Len(text) : isGuidAt(text, i)}
  IN IF hits = {} THEN Null
     ELSE LET i == CHOOSE h \in hits : \A g \in hits : h <= g IN Str(SubSeq(text, i, i + 37))

\* replace(re, '') for a pattern that runs to the end of the string:
\* cut at the first position where one of the heads matches
cutAtFirst(s, Starts(_)) ==
  LET hits == {i \in 1..Len(s) : Starts(i)}
  IN IF hits = {} THEN s
     ELSE SubSeq(s, 1, (CHOOSE h \in hits : \A g \in hits : h <= g) - 1)

versionAt(s, i) ==
  /\ digitsRun(s, i) > 0
  /\ i + digitsRun(s, i) <= Len(s)
  /\ s[i + digitsRun(s, i)] = "."
  /\ digitsRun(s, i + digitsRun(s, i) + 1) > 0

removeWhitespace(s) == SelectSeq(s, LAMBDA c : c # " ")

\* guessAppName on pages without a <title>
guessAppName(filename) ==
  LET a == cutAtFirst(filename,
             LAMBDA i : MatchAtCI(filename, i, S_dashSetup) \/ MatchAtCI(filename, i, S_underSetup))
      b == cutAtFirst(a,
             LAMBDA i : MatchAtCI(a, i, S_dashInstall) \/ MatchAtCI(a, i, S_underInstall))
      c == cutAtFirst(b, LAMBDA i : versionAt(b, i))
  IN removeWhitespace(trim(dashesToSpaces(c)))

\* replace(/[-_]setup|-installer|_install/gi, '')
RECURSIVE stripSetupWords(_, _)
stripSetupWords(s, i) ==
  IF i > Len(s) THEN <<>>
  ELSE IF MatchAtCI(s, i, S_dashSetup) \/ MatchAtCI(s, i, S_underSetup)
    THEN stripSetupWords(s, i + Len(S_dashSetup))
  ELSE IF MatchAtCI(s, i, S_dashInstaller) THEN stripSetupWords(s, i + Len(S_dashInstaller))
  ELSE IF MatchAtCI(s, i, S_underInstall) THEN stripSetupWords(s, i + Len(S_underInstall))
  ELSE <<s[i]>> \o stripSetupWords(s, i + 1)

findExeInPath(path, filename) ==
  IF EndsWith(toLowerCase(path), S_exe) THEN path
  ELSE LET stripped == stripSetupWords(filename, 1)
           exeName == trim(cutAtFirst(stripped, LAMBDA i : versionAt(stripped, i)))
       IN path \o S_backslash \o exeName

mentionsOrSameType(cmd, installer) ==
  \/ Includes(toLowerCase(cmd.raw), toLowerCase(installer.filename))
  \/ cmd.type = installer.type

firstWhere(s, Test(_)) ==
  LET hits == {i \in 1..Len(s) : Test(s[i])}
  IN IF hits = {} THEN 0 ELSE CHOOSE h \in hits : \A g \in hits : h <= g

\* one detection candidate per installer
inferDetectionRule(installer, commands) ==
  LET related == SelectSeq(commands, LAMBDA c : mentionsOrSameType(c, installer))
      withPath == firstWhere(related, LAMBDA c : Len(c.possiblePaths) > 0)
      withGuid == firstWhere(commands,
                    LAMBDA c : c.inferredRole = "uninstall" /\ ~extractGuid(c.raw).isNull)
      appName == guessAppName(installer.filename)
      addPage(pageUrl) == IF Has(installer.sourcePages, pageUrl) THEN installer.sourcePages
                          ELSE Append(installer.sourcePages, pageUrl)
  IN IF withPath # 0
       THEN [detectionRule |->
               Rule("file", Str(findExeInPath(related[withPath].possiblePaths[1],
                                              installer.filename)), FALSE, Null),
             confidence |-> "high",
             sourcePages |-> addPage(related[withPath].pageUrl),
             notes |-> <<"Path found in official documentation">>]
     ELSE IF installer.type = "msi" /\ withGuid # 0
       THEN [detectionRule |->
               Rule("registry", Str(S_uninstallKey \o extractGuid(commands[withGuid].raw).v),
                    FALSE, Null),
             confidence |-> "high",
             sourcePages |-> addPage(commands[withGuid].pageUrl),
             notes |-> <<"ProductCode found in uninstall documentation">>]
     ELSE [detectionRule |->
             Rule("file", Str(S_programFilesC \o appName \o S_backslash \o appName \o S_exe),
                  TRUE, Null),
           confidence |-> "low",
           sourcePages |-> installer.sourcePages,
           notes |-> <<"Heuristic detection rule - verify actual install path">>]

hasSwitchIn(cmd, allowed) ==
  \E k \in 1..Len(cmd.switches) : toLowerCase(cmd.switches[k]) \in allowed

packagingFor(installer, commands) ==
  LET detection == inferDetectionRule(installer, commands)
      installCommands ==
        SelectSeq(commands,
                  LAMBDA c : c.inferredRole = "install" /\ mentionsOrSameType(c, installer))
      uninstallCommands ==
        SelectSeq(commands,
                  LAMBDA c : c.inferredRole = "uninstall" /\ mentionsOrSameType(c, installer))
      silentInstall ==
        firstWhere(installCommands,
                   LAMBDA c : hasSwitchIn(c, {S_qn, S_slashQuiet, S_slashSilent, S_slashS,
                                              S_verysilent}))
      bestUninstall ==
        firstWhere(uninstallCommands,
                   LAMBDA c : hasSwitchIn(c, {S_qn, S_slashQuiet, S_slashSilent, S_slashS}))
      guid == IF Len(uninstallCommands) > 0 THEN extractGuid(uninstallCommands[1].raw) ELSE Null
      silentInstallCommand ==
        IF silentInstall # 0 THEN Str(installCommands[silentInstall].raw)
        ELSE IF Len(installCommands) > 0 THEN Str(installCommands[1].raw)
        ELSE IF installer.type = "msi"
          THEN Str(S_msiInstallPrefix \o installer.filename \o S_msiInstallSuffix)
        ELSE Str(S_quote \o installer.filename \o S_exeFallbackSuffix)
      installWarnings ==
        IF silentInstall # 0 THEN <<>>
        ELSE IF Len(installCommands) > 0
          THEN <<"Command found but silent switches not confirmed">>
        ELSE <<"Using heuristic fallback command - verify with vendor documentation">>
      uninstallCommand ==
        IF bestUninstall # 0 THEN Str(uninstallCommands[bestUninstall].raw)
        ELSE IF installer.type = "msi"
          THEN IF ~guid.isNull THEN Str(S_msiUninstallPrefix \o guid.v \o S_quietNoRestart)
               ELSE Str(S_msiUninstallQuoted \o installer.filename \o S_msiInstallSuffix)
        ELSE Null
      uninstallWarnings ==
        IF bestUninstall = 0 /\ installer.type = "msi" /\ guid.isNull
          THEN <<"MSI uninstall: ProductCode not found, using filename">>
          ELSE <<>>
  IN Recommendation(installer.filename, installer.type, silentInstallCommand, uninstallCommand,
                    detection.detectionRule,
                    Confidence(detection.confidence, "", "", ""),
                    installWarnings \o uninstallWarnings \o detection.notes,
                    detection.sourcePages,
                    <<>>)

\* the packaging list of buildPackagingResult: one entry per installer found
buildPackagingResult(ps, w) ==
  LET installers == extractInstallers(ps, w)
      commands == extractCommandsFromDocs(ps, w)
  IN [k \in 1..Len(installers) |-> packagingFor(installers[k], commands)]

(***************************************************************************)
(* Requests                                                                *)
(***************************************************************************)
Endpoints == {"analyze", "server", "route"}

RequestUrls ==
  {U_root, U_localhost, U_metadata, U_private172, U_ftpRoot, U_file, MalformedUrl, AbsentUrl}

\* the maxPages field of the analyze request body: absent, a non-numeric
\* string, or an integer
MaxRequested == 12
MinRequested == 2

MaxPagesInputs ==
  {[t |-> "absent", v |-> 0], [t |-> "text", v |-> 0]}
  \cup {[t |-> "int", v |-> n] : n \in (0 - MinRequested)..MaxRequested}

NoMaxPages == [t |-> "absent", v |-> 0]

InstallerUrls ==
  {MkUrl("https:", H_cdn, P("/setup.exe", 0)), MkUrl("ftp:", H_cdn, P("/setup.exe", 0)),
   MalformedUrl, AbsentUrl}

Filenames == {F_setup, F_app, F_bundle, F_tarball, F_tool, F_none}

(***************************************************************************)
(* backend/routes/analyze.js: Math.min(Math.max(1, parseInt(maxPages) ||   *)
(* 5), 10), with the destructuring default maxPages = 5                    *)
(***************************************************************************)
DEFAULT_MAX_PAGES == 5
PAGE_LIMIT == 10
ROUTE_MAX_PAGES == 8
MAX_RETRIES == 3

Min(a, b) == IF a < b THEN a ELSE b
Max(a, b) == IF a > b THEN a ELSE b

\* const { url, maxPages = 5 } = req.body
bodyMaxPages(mp) == IF mp.t = "absent" THEN [t |-> "int", v |-> DEFAULT_MAX_PAGES] ELSE mp

\* parseInt: NaN is [nan |-> TRUE]
parseInt(x) == IF x.t = "int" THEN [nan |-> FALSE, v |-> x.v] ELSE [nan |-> TRUE, v |-> 0]

\* the clamp with its upper limit left out
clampMaxPages_noCeiling(mp) ==
  LET n == parseInt(bodyMaxPages(mp))
      orDefault == IF n.nan \/ n.v = 0 THEN DEFAULT_MAX_PAGES ELSE n.v
  IN Max(1, orDefault)

clampMaxPages(mp) ==
  LET n == parseInt(bodyMaxPages(mp))
      orDefault == IF n.nan \/ n.v = 0 THEN DEFAULT_MAX_PAGES ELSE n.v
  IN Min(Max(1, orDefault), PAGE_LIMIT)

(***************************************************************************)
(* State                                                                   *)
(***************************************************************************)
VARIABLES
  endpoint,     \* which backend serves the request
  req,          \* request body: url, installerUrl, filename, maxPages
  web,          \* the site the crawler meets
  pc,           \* position of the request handler
  budget,       \* maxPages handed to the crawl
  visited,      \* the crawl's visited set
  queue,        \* toVisit / queue / remaining docLinks
  pages,        \* pages collected, in order
  cur,          \* URL being processed
  attempt,      \* fetchWithRetry attempt number
  phase,        \* crawlDocumentationPages: "main" page or "links"
  inflight,     \* URLs whose fetch has been issued and not yet settled
  log,          \* fetches, politeness delays and backoff sleeps, in order
  validated,    \* URLs a validator has accepted during this request
  failed,       \* URLs whose fetch was given up
  crawlStatus,  \* "idle", "running", "returned", "threw"
  fetchError,   \* fetchWithRetry: what the catch block caught, "" outside it
  docPromises,  \* crawlVendorDocumentation: one entry per doc link, in link order
  linkAnchors, linkFn, linkResult,  \* link discovery under test: anchors, function, result
  licenseFile,      \* data/licenses.json: the users array
  licenseRequests,  \* POST /api/checkLicense requests received, in order of arrival
  response,     \* HTTP response sent, status 0 while none
  vInput, vFn, vResult,  \* validator under test: input, function applied, result
  worker,                  \* which extension service worker is running
  downloadCaptureState,    \* service-worker.js: {active, tabId}
  activeCapture,           \* src/background/service-worker.js: {tabId} or null
  captureTabId,            \* part_001: tab id or null
  capturedDownloadsByTab,  \* tab key -> captured downloads, <<>> while the key is absent
  pendingQueries,          \* chrome.tabs.query calls whose callback has not run yet
  messages,                \* capture messages received and DOWNLOAD_CAPTURED sent, in order
  closedTabs               \* the browser's tabs that have been closed

crawlVars == <<budget, visited, queue, pages, cur, attempt, phase, inflight, log, validated,
               failed, crawlStatus, fetchError, docPromises>>
reqVars == <<endpoint, req, web>>
valVars == <<vInput, vFn, vResult>>
linkVars == <<linkAnchors, linkFn, linkResult>>
licVars == <<licenseFile, licenseRequests>>
capVars == <<worker, downloadCaptureState, activeCapture, captureTabId, capturedDownloadsByTab,
             pendingQueries, messages, closedTabs>>
vars == <<endpoint, req, web, pc, budget, visited, queue, pages, cur, attempt, phase, inflight,
          log, validated, failed, crawlStatus, fetchError, docPromises, response, vInput, vFn, vResult, worker,
          linkAnchors, linkFn, linkResult,
          licenseFile, licenseRequests,
          downloadCaptureState, activeCapture, captureTabId, capturedDownloadsByTab,
          pendingQueries, messages, closedTabs>>

NoResponse == [status |-> 0, error |-> "", packaging |-> <<>>]
Page(u, isHtml) == [url |-> u, isHtml |-> isHtml]
Ev(e, u, n) == [e |-> e, url |-> u, n |-> n]

PageUrls == {pages[i].url : i \in 1..Len(pages)}

IdleCrawl ==
  /\ budget = 0
  /\ visited = {}
  /\ queue = <<>>
  /\ pages = <<>>
  /\ cur = AbsentUrl
  /\ attempt = 0
  /\ phase = "none"
  /\ inflight = {}
  /\ log = <<>>
  /\ validated = {}
  /\ failed = {}
  /\ crawlStatus = "idle"
  /\ fetchError = ""
  /\ docPromises = <<>>

IdleValidator == vInput = MalformedUrl /\ vFn = "none" /\ vResult = FALSE
IdleLinks == linkAnchors = <<>> /\ linkFn = "none" /\ linkResult = <<>>
IdleLicense == licenseFile = <<>> /\ licenseRequests = <<>>

Tab(n) == [type |-> "number", v |-> n]
NullTab == [type |-> "null", v |-> 0]
UndefinedId == [type |-> "undefined", v |-> 0]
ExtensionId == [type |-> "string", v |-> 0]
Tabs == {Tab(1), Tab(2)}
TabKeys == Tabs \cup {ExtensionId}

IdleCapture ==
  /\ worker = "none"
  /\ downloadCaptureState = [active |-> FALSE, tabId |-> NullTab]
  /\ activeCapture = NullTab
  /\ captureTabId = NullTab
  /\ capturedDownloadsByTab = [k \in TabKeys |-> <<>>]
  /\ pendingQueries = {}
  /\ messages = <<>>
  /\ closedTabs = {}

IdleRequest ==
  /\ endpoint = "none"
  /\ req = [url |-> AbsentUrl, installerUrl |-> AbsentUrl, filename |-> F_none,
            maxPages |-> NoMaxPages]
  /\ web = "leaf"
  /\ pc = "off"
  /\ response = NoResponse
  /\ IdleCrawl

Init ==
  /\ \/ /\ endpoint = "analyze"
        /\ \E u \in RequestUrls, mp \in MaxPagesInputs :
             req = [url |-> u, installerUrl |-> AbsentUrl, filename |-> F_none, maxPages |-> mp]
     \/ /\ endpoint = "server"
        /\ \E u \in RequestUrls, iu \in InstallerUrls, f \in Filenames :
             req = [url |-> u, installerUrl |-> iu, filename |-> f, maxPages |-> NoMaxPages]
     \/ /\ endpoint = "route"
        /\ \E u \in RequestUrls :
             req = [url |-> u, installerUrl |-> AbsentUrl, filename |-> F_none, maxPages |-> NoMaxPages]
  /\ web \in Webs
  /\ pc = "recv"
  /\ response = NoResponse
  /\ IdleCrawl
  /\ IdleValidator
  /\ IdleCapture
  /\ IdleLinks
  /\ IdleLicense

Respond(status, error, packaging) ==
  /\ response' = [status |-> status, error |-> error, packaging |-> packaging]
  /\ pc' = "done"

StartCrawl(startUrl, maxPages, accepted) ==
  /\ budget' = maxPages
  /\ visited' = {}
  /\ queue' = <<startUrl>>
  /\ pages' = <<>>
  /\ validated' = accepted
  /\ crawlStatus' = "running"
  /\ pc' = "loop"
  /\ UNCHANGED <<cur, attempt, phase, inflight, log, failed, fetchError, docPromises, response>>

(***************************************************************************)
(* Endpoint "analyze": backend/routes/analyze.js over                      *)
(* backend/lib/crawler.js                                                  *)
(***************************************************************************)
analyze_Receive ==
  /\ endpoint = "analyze" /\ pc = "recv"
  /\ IF req.url.kind = "absent"
       THEN Respond(400, "Missing required field: url", <<>>) /\ UNCHANGED crawlVars
     ELSE IF ~validateUrl(req.url)
       THEN Respond(400, "Invalid or unsafe URL", <<>>) /\ UNCHANGED crawlVars
     ELSE StartCrawl(req.url, clampMaxPages(req.maxPages), {req.url})
  /\ UNCHANGED <<reqVars, valVars, capVars, linkVars, licVars>>

\* while (toVisit.length > 0 && crawledPages.length < maxPages) { shift; visited? }
shallowCrawl_Loop ==
  /\ endpoint = "analyze" /\ pc = "loop"
  /\ IF Len(queue) > 0 /\ Len(pages) < budget
       THEN /\ queue' = Tail(queue)
            /\ IF Head(queue) \in visited
                 THEN UNCHANGED <<visited, cur, pc>>
                 ELSE /\ visited' = visited \cup {Head(queue)}
                      /\ cur' = Head(queue)
                      /\ pc' = "fetch"
            /\ UNCHANGED crawlStatus
       ELSE /\ crawlStatus' = "returned"
            /\ pc' = "respond"
            /\ UNCHANGED <<queue, visited, cur>>
  /\ UNCHANGED <<reqVars, valVars, capVars, linkVars, licVars, fetchError, docPromises, budget, pages, attempt, phase, inflight, log, validated,
                 failed, response>>

\* fetchPage up to the fetch() call: validateUrl or throw
fetchPage_Issue ==
  /\ endpoint = "analyze" /\ pc = "fetch"
  /\ IF ~validateUrl(cur)
       THEN /\ crawlStatus' = "threw"
            /\ pc' = "respond"
            /\ UNCHANGED <<inflight, log, validated>>
       ELSE /\ validated' = validated \cup {cur}
            /\ inflight' = inflight \cup {cur}
            /\ log' = Append(log, Ev("fetch", cur, 0))
            /\ pc' = "await"
            /\ UNCHANGED crawlStatus
  /\ UNCHANGED <<reqVars, valVars, capVars, linkVars, licVars, fetchError, docPromises, budget, visited, queue, pages, cur, attempt, phase, failed,
                 response>>

\* links.forEach(link => { if (!visited.has(link) && toVisit.length < maxPages) push })
RECURSIVE shallowCrawl_enqueue(_, _, _, _, _)
shallowCrawl_enqueue(links, i, seen, toVisit, maxPages) ==
  IF i > Len(links) THEN toVisit
  ELSE shallowCrawl_enqueue(links, i + 1, seen,
         IF links[i] \notin seen /\ Len(toVisit) < maxPages
           THEN Append(toVisit, links[i]) ELSE toVisit,
         maxPages)

\* fetchPage from the response on, and the rest of the loop body up to the delay
fetchPage_Complete ==
  /\ endpoint = "analyze" /\ pc = "await"
  /\ \E outcome \in FetchOutcomes :
       IF outcome = "ok"
         THEN /\ pages' = Append(pages, Page(cur, TRUE))
              /\ queue' = IF Len(pages) = 0
                            THEN shallowCrawl_enqueue(lib_extractRelevantLinks(web, cur), 1,
                                                      visited, queue, budget)
                            ELSE queue
              /\ UNCHANGED failed
         ELSE /\ failed' = failed \cup {cur}
              /\ UNCHANGED <<pages, queue>>
  /\ inflight' = inflight \ {cur}
  /\ pc' = "delay"
  /\ UNCHANGED <<reqVars, valVars, capVars, linkVars, licVars, fetchError, docPromises, budget, visited, cur, attempt, phase, log, validated,
                 crawlStatus, response>>

\* await new Promise(resolve => setTimeout(resolve, 500))
shallowCrawl_Delay ==
  /\ endpoint = "analyze" /\ pc = "delay"
  /\ log' = Append(log, Ev("delay", AbsentUrl, 0))
  /\ pc' = "loop"
  /\ UNCHANGED <<reqVars, valVars, capVars, linkVars, licVars, fetchError, docPromises, budget, visited, queue, pages, cur, attempt, phase, inflight,
                 validated, failed, crawlStatus, response>>

analyze_Respond ==
  /\ endpoint = "analyze" /\ pc = "respond"
  /\ IF crawlStatus = "threw"
       THEN Respond(400, "Invalid or unsafe URL", <<>>)
     ELSE IF Len(pages) = 0
       THEN Respond(404, "Could not fetch the URL or no pages were accessible", <<>>)
     ELSE Respond(200, "", <<>>)
  /\ UNCHANGED <<reqVars, valVars, capVars, linkVars, licVars, crawlVars>>

(***************************************************************************)
(* Endpoint "route": POST /analyzeApp router over crawlDocumentation       *)
(***************************************************************************)
route_Receive ==
  /\ endpoint = "route" /\ pc = "recv"
  /\ IF req.url.kind = "absent"
       THEN Respond(400, "URL is required and must be a string", <<>>) /\ UNCHANGED crawlVars
     ELSE IF ~isUrlSafe(req.url)
       \* crawlDocumentation throws 'Invalid or unsafe URL provided'; the
       \* router's catch answers 400
       THEN /\ Respond(400, "The provided URL is not allowed for security reasons", <<>>)
            /\ crawlStatus' = "threw"
            /\ UNCHANGED <<budget, visited, queue, pages, cur, attempt, phase, inflight, log,
                           validated, failed, fetchError, docPromises>>
     ELSE StartCrawl(req.url, ROUTE_MAX_PAGES, {req.url})
  /\ UNCHANGED <<reqVars, valVars, capVars, linkVars, licVars>>

\* the crawl loop without visited.add(currentUrl)
crawlDocumentation_Loop_noVisitedAdd ==
  /\ endpoint = "route" /\ pc = "loop"
  /\ IF Len(queue) > 0 /\ Len(pages) < budget
       THEN /\ queue' = Tail(queue)
            /\ IF Head(queue) \in visited
                 THEN UNCHANGED <<cur, pc>>
                 ELSE /\ cur' = Head(queue)
                      /\ pc' = "fetch"
            /\ UNCHANGED <<crawlStatus, visited>>
       ELSE /\ crawlStatus' = "returned"
            /\ pc' = "respond"
            /\ UNCHANGED <<queue, visited, cur>>
  /\ UNCHANGED <<reqVars, valVars, capVars, linkVars, licVars, fetchError, docPromises, budget, pages, attempt, phase, inflight, log, validated,
                 failed, response>>

\* while (queue.length > 0 && pages.length < maxPages) { shift; visited? }
crawlDocumentation_Loop ==
  /\ endpoint = "route" /\ pc = "loop"
  /\ IF Len(queue) > 0 /\ Len(pages) < budget
       THEN /\ queue' = Tail(queue)
            /\ IF Head(queue) \in visited
                 THEN UNCHANGED <<visited, cur, pc>>
                 ELSE /\ visited' = visited \cup {Head(queue)}
                      /\ cur' = Head(queue)
                      /\ pc' = "fetch"
            /\ UNCHANGED crawlStatus
       ELSE /\ crawlStatus' = "returned"
            /\ pc' = "respond"
            /\ UNCHANGED <<queue, visited, cur>>
  /\ UNCHANGED <<reqVars, valVars, capVars, linkVars, licVars, fetchError, docPromises, budget, pages, attempt, phase, inflight, log, validated,
                 failed, response>>

\* const response = await fetch(currentUrl, ...)
crawlDocumentation_Issue ==
  /\ endpoint = "route" /\ pc = "fetch"
  /\ inflight' = inflight \cup {cur}
  /\ log' = Append(log, Ev("fetch", cur, 0))
  /\ pc' = "await"
  /\ UNCHANGED <<reqVars, valVars, capVars, linkVars, licVars, fetchError, docPromises, budget, visited, queue, pages, cur, attempt, phase, validated,
                 failed, crawlStatus, response>>

\* for (const link of links) if (!visited.has(link) && !queue.includes(link)) push
RECURSIVE crawlDocumentation_enqueue(_, _, _, _)
crawlDocumentation_enqueue(links, i, seen, q) ==
  IF i > Len(links) THEN q
  ELSE crawlDocumentation_enqueue(links, i + 1, seen,
         IF links[i] \notin seen /\ ~Has(q, links[i]) THEN Append(q, links[i]) ELSE q)

\* the loop body after the fetch: status and content-type checks, page
\* stored, links queued; any exception is caught and logged
crawlDocumentation_Complete ==
  /\ endpoint = "route" /\ pc = "await"
  /\ \E outcome \in FetchOutcomes :
       IF outcome = "ok"
         THEN /\ pages' = Append(pages, Page(cur, TRUE))
              /\ queue' = IF Len(pages) + 1 < budget
                            THEN crawlDocumentation_enqueue(
                                   doc_extractRelevantLinks(web, cur, req.url.host), 1,
                                   visited, queue)
                            ELSE queue
              /\ UNCHANGED failed
         ELSE /\ failed' = failed \cup {cur}
              /\ UNCHANGED <<pages, queue>>
  /\ inflight' = inflight \ {cur}
  /\ pc' = "loop"
  /\ UNCHANGED <<reqVars, valVars, capVars, linkVars, licVars, fetchError, docPromises, budget, visited, cur, attempt, phase, log, validated,
                 crawlStatus, response>>

route_Respond ==
  /\ endpoint = "route" /\ pc = "respond"
  /\ IF Len(pages) = 0
       THEN Respond(404, "No pages found", <<>>)
       ELSE Respond(200, "", buildPackagingResult(pages, web))
  /\ UNCHANGED <<reqVars, valVars, capVars, linkVars, licVars, crawlVars>>

(***************************************************************************)
(* Endpoint "server": backend/server.js over backend/crawler.js            *)
(***************************************************************************)

server_Receive ==
  /\ endpoint = "server" /\ pc = "recv"
  /\ IF req.url.kind = "absent" \/ req.installerUrl.kind = "absent" \/ req.filename = F_none
       THEN /\ Respond(400, "Missing required fields: url, installerUrl, filename", <<>>)
            /\ UNCHANGED crawlVars
     ELSE IF ~isHttpUrl(req.installerUrl)
       THEN /\ Respond(400, "Installer URL must be an HTTP or HTTPS URL", <<>>)
            /\ UNCHANGED crawlVars
     ELSE IF classifyKind(req.filename) # "EXE"
       THEN /\ Respond(200, "", crawlAndAnalyze(req.filename, <<>>, web))
            /\ UNCHANGED crawlVars
     ELSE \* crawlDocumentationPages(pageUrl): fetchWithRetry(pageUrl)
          /\ cur' = req.url
          /\ attempt' = 1
          /\ phase' = "main"
          /\ crawlStatus' = "running"
          /\ pc' = "attempt"
          /\ UNCHANGED <<budget, visited, queue, pages, inflight, log, validated, failed,
                         fetchError, docPromises, response>>
  /\ UNCHANGED <<reqVars, valVars, capVars, linkVars, licVars>>

\* fetch() rejects a string that is no http(s) URL before it opens a connection
Fetchable(u) == u.kind = "url" /\ u.scheme \in {"http:", "https:"}

\* fetchWithRetry: const response = await fetch(url, ...)
fetchWithRetry_Issue ==
  /\ endpoint = "server" /\ pc = "attempt"
  /\ inflight' = IF Fetchable(cur) THEN inflight \cup {cur} ELSE inflight
  /\ log' = IF Fetchable(cur) THEN Append(log, Ev("fetch", cur, attempt))
            ELSE Append(log, Ev("reject", cur, attempt))
  /\ fetchError' = ""
  /\ pc' = "await"
  /\ UNCHANGED <<reqVars, valVars, capVars, linkVars, licVars, docPromises, budget, visited, queue, pages, cur, attempt, phase, validated,
                 failed, crawlStatus, response>>

\* fetchWithRetry from the response on, and what crawlDocumentationPages does
\* with its result or its exception
fetchWithRetry_Complete ==
  /\ endpoint = "server" /\ pc = "await"
  /\ inflight' = inflight \ {cur}
  /\ \E outcome \in IF Fetchable(cur) THEN FetchOutcomes ELSE {"net_error"} :
       IF outcome \in {"ok", "non_html"}
         THEN /\ pages' = Append(pages, Page(cur, outcome = "ok"))
              /\ visited' = visited \cup {cur}
              /\ queue' = IF phase = "main"
                            THEN IF outcome = "ok"
                                   THEN pages_docLinks(web, cur, visited \cup {cur})
                                   ELSE <<>>
                            ELSE queue
              /\ phase' = "links"
              /\ pc' = "next"
              /\ UNCHANGED <<failed, crawlStatus, fetchError>>
         ELSE IF attempt = MAX_RETRIES
           THEN /\ failed' = failed \cup {cur}
                /\ IF phase = "main"
                     THEN crawlStatus' = "returned" /\ pc' = "build"
                     ELSE pc' = "next" /\ UNCHANGED crawlStatus
                /\ UNCHANGED <<pages, visited, queue, phase, fetchError>>
           ELSE /\ fetchError' = outcome
                /\ pc' = "backoff"
                /\ UNCHANGED <<pages, visited, queue, phase, failed, crawlStatus>>
  /\ UNCHANGED <<reqVars, valVars, capVars, linkVars, licVars, docPromises, budget, cur, attempt, log, validated, response>>

\* the retry without await sleep(1000 * attempt)
fetchWithRetry_Backoff_noSleep ==
  /\ endpoint = "server" /\ pc = "backoff"
  /\ attempt' = attempt + 1
  /\ pc' = "attempt"
  /\ UNCHANGED <<reqVars, valVars, capVars, linkVars, licVars, docPromises, fetchError, docPromises, budget, visited, queue, pages, cur, phase, inflight,
                 validated, failed, crawlStatus, response, log>>

\* await sleep(1000 * attempt)
fetchWithRetry_Backoff ==
  /\ endpoint = "server" /\ pc = "backoff"
  /\ log' = Append(log, Ev("backoff", AbsentUrl, attempt))
  /\ attempt' = attempt + 1
  /\ pc' = "attempt"
  /\ UNCHANGED <<reqVars, valVars, capVars, linkVars, licVars, fetchError, docPromises, budget, visited, queue, pages, cur, phase, inflight,
                 validated, failed, crawlStatus, response>>

\* for (const link of docLinks.slice(0, 5)) { fetchWithRetry(link) ... }
crawlDocumentationPages_Next ==
  /\ endpoint = "server" /\ pc = "next"
  /\ IF Len(queue) > 0
       THEN /\ cur' = Head(queue)
            /\ queue' = Tail(queue)
            /\ attempt' = 1
            /\ pc' = "attempt"
            /\ UNCHANGED crawlStatus
       ELSE /\ crawlStatus' = "returned"
            /\ pc' = "build"
            /\ UNCHANGED <<cur, queue, attempt>>
  /\ UNCHANGED <<reqVars, valVars, capVars, linkVars, licVars, fetchError, docPromises, budget, visited, pages, phase, inflight, log, validated,
                 failed, response>>

server_Respond ==
  /\ endpoint = "server" /\ pc = "build"
  /\ Respond(200, "", crawlAndAnalyze(req.filename, pages, web))
  /\ UNCHANGED <<reqVars, valVars, capVars, linkVars, licVars, crawlVars>>

Next ==
  \/ analyze_Receive
  \/ shallowCrawl_Loop
  \/ fetchPage_Issue
  \/ fetchPage_Complete
  \/ shallowCrawl_Delay
  \/ analyze_Respond
  \/ route_Receive
  \/ crawlDocumentation_Loop
  \/ crawlDocumentation_Issue
  \/ crawlDocumentation_Complete
  \/ route_Respond
  \/ server_Receive
  \/ fetchWithRetry_Issue
  \/ fetchWithRetry_Complete
  \/ fetchWithRetry_Backoff
  \/ crawlDocumentationPages_Next
  \/ server_Respond

Spec == Init /\ [][Next]_vars

(***************************************************************************)
(* The validators on their own: one input, one validator applied to it     *)
(***************************************************************************)
InitValidate ==
  /\ IdleRequest
  /\ IdleCapture
  /\ IdleLinks
  /\ IdleLicense
  /\ vInput \in ValidatorInputs
  /\ vFn = "none"
  /\ vResult = FALSE

\* validateUrl(url)
apply_validateUrl ==
  /\ vFn = "none"
  /\ vFn' = "validateUrl"
  /\ vResult' = validateUrl(vInput)
  /\ UNCHANGED <<vInput, reqVars, crawlVars, capVars, linkVars, licVars, pc, response>>

\* isUrlSafe(url)
apply_isUrlSafe ==
  /\ vFn = "none"
  /\ vFn' = "isUrlSafe"
  /\ vResult' = isUrlSafe(vInput)
  /\ UNCHANGED <<vInput, reqVars, crawlVars, capVars, linkVars, licVars, pc, response>>

\* isHttpUrl(url)
apply_isHttpUrl ==
  /\ vFn = "none"
  /\ vFn' = "isHttpUrl"
  /\ vResult' = isHttpUrl(vInput)
  /\ UNCHANGED <<vInput, reqVars, crawlVars, capVars, linkVars, licVars, pc, response>>

NextValidate ==
  \/ apply_validateUrl
  \/ apply_isUrlSafe
  \/ apply_isHttpUrl

SpecValidate == InitValidate /\ [][NextValidate]_vars

(***************************************************************************)
(* Download capture: the extension's service workers                       *)
(*   "service-worker.js"            src/service-worker.js                  *)
(*   "background/service-worker.js" src/src/background/service-worker.js   *)
(*   "part_001"                     src/unnamed/part_001                   *)
(* A download URL is kept as whether new URL() accepts it and its last     *)
(* path segment; finalUrl is taken to equal url.                           *)
(***************************************************************************)
Workers == {"service-worker.js", "background/service-worker.js", "part_001"}

MaxMessages == 4
MaxPendingQueries == 1

DownloadUrl(valid, last) == [valid |-> valid, last |-> last]
DownloadUrls ==
  {DownloadUrl(TRUE, F_setup), DownloadUrl(TRUE, F_app), DownloadUrl(TRUE, F_tool),
   DownloadUrl(FALSE, F_setup)}
DownloadItem(url, byExtensionId) == [url |-> url, byExtensionId |-> byExtensionId]
DownloadItems == {DownloadItem(u, e) : u \in DownloadUrls, e \in {UndefinedId, ExtensionId}}

INSTALLER_EXTENSIONS ==
  {<<".", "e", "x", "e">>,
   <<".", "m", "s", "i">>,
   <<".", "m", "s", "i", "x">>,
   <<".", "a", "p", "p", "x">>,
   <<".", "m", "s", "i", "x", "b", "u", "n", "d", "l", "e">>,
   <<".", "m", "s", "u">>,
   <<".", "m", "s", "p">>,
   <<".", "d", "m", "g">>,
   <<".", "p", "k", "g">>,
   <<".", "z", "i", "p">>,
   <<".", "t", "a", "r", ".", "g", "z">>,
   <<".", "t", "g", "z">>,
   <<".", "7", "z">>,
   <<".", "r", "a", "r">>}

\* normalizeFilename(value): the last path segment when it names an installer
normalizeFilename(value) ==
  IF /\ value.valid
     /\ Len(value.last) > 0
     /\ Includes(value.last, <<".">>)
     /\ \E ext \in INSTALLER_EXTENSIONS : EndsWith(toLowerCase(value.last), ext)
  THEN Str(value.last)
  ELSE Null

isInstallerUrl(value) == ~normalizeFilename(value).isNull

InitCapture ==
  /\ IdleRequest
  /\ IdleValidator
  /\ IdleLinks
  /\ IdleLicense
  /\ worker \in Workers
  /\ downloadCaptureState = [active |-> FALSE, tabId |-> NullTab]
  /\ activeCapture = NullTab
  /\ captureTabId = NullTab
  /\ capturedDownloadsByTab = [k \in TabKeys |-> <<>>]
  /\ pendingQueries = {}
  /\ messages = <<>>
  /\ closedTabs = {}

idleVars == <<reqVars, valVars, linkVars, licVars, crawlVars, pc, response, worker>>

\* ---- src/service-worker.js ----

\* onMessage: START_DOWNLOAD_CAPTURE
serviceWorker_START_DOWNLOAD_CAPTURE ==
  /\ worker = "service-worker.js"
  /\ Len(messages) < MaxMessages
  /\ \E tabId \in Tabs \ closedTabs :
       downloadCaptureState' = [active |-> TRUE, tabId |-> tabId]
  /\ messages' = Append(messages, "START_DOWNLOAD_CAPTURE")
  /\ UNCHANGED <<idleVars, closedTabs, activeCapture, captureTabId, capturedDownloadsByTab, pendingQueries>>

\* onMessage: STOP_DOWNLOAD_CAPTURE
serviceWorker_STOP_DOWNLOAD_CAPTURE ==
  /\ worker = "service-worker.js"
  /\ Len(messages) < MaxMessages
  /\ downloadCaptureState' = [active |-> FALSE, tabId |-> NullTab]
  /\ messages' = Append(messages, "STOP_DOWNLOAD_CAPTURE")
  /\ UNCHANGED <<idleVars, closedTabs, activeCapture, captureTabId, capturedDownloadsByTab, pendingQueries>>

\* chrome.downloads.onCreated listener
serviceWorker_onCreated ==
  /\ worker = "service-worker.js"
  /\ Len(messages) < MaxMessages
  /\ \E downloadItem \in DownloadItems :
       IF ~downloadCaptureState.active \/ downloadCaptureState.tabId = NullTab
       THEN UNCHANGED <<capturedDownloadsByTab, messages, downloadCaptureState>>
       ELSE /\ capturedDownloadsByTab' =
                 [capturedDownloadsByTab EXCEPT ![downloadCaptureState.tabId] =
                    Append(@, downloadItem.url)]
            /\ messages' = Append(messages, "DOWNLOAD_CAPTURED")
            /\ downloadCaptureState' = [active |-> FALSE, tabId |-> NullTab]
  /\ UNCHANGED <<idleVars, closedTabs, activeCapture, captureTabId, pendingQueries>>

\* chrome.tabs.onRemoved listener
serviceWorker_onRemoved ==
  /\ worker = "service-worker.js"
  /\ \E tabId \in Tabs \ closedTabs :
       /\ closedTabs' = closedTabs \cup {tabId}
       /\ capturedDownloadsByTab' = [capturedDownloadsByTab EXCEPT ![tabId] = <<>>]
       /\ downloadCaptureState' =
            IF downloadCaptureState.tabId = tabId
            THEN [active |-> FALSE, tabId |-> NullTab]
            ELSE downloadCaptureState
  /\ UNCHANGED <<idleVars, activeCapture, captureTabId, pendingQueries, messages>>

\* ---- src/src/background/service-worker.js ----

\* a chrome.tabs.query call: the download it is for and the tabs answered, UndefinedId
\* until the browser has answered
Query(url, tabs) == [url |-> url, tabs |-> tabs]

\* processCapturedDownload(downloadItem, url, filename, host, targetTabId)
processCapturedDownload(url, targetTabId) ==
  LET list == capturedDownloadsByTab[targetTabId] IN
  IF \E i \in 1..Len(list) : list[i] = url
  THEN UNCHANGED <<capturedDownloadsByTab, messages, activeCapture>>
  ELSE /\ capturedDownloadsByTab' =
            [capturedDownloadsByTab EXCEPT ![targetTabId] = Append(list, url)]
       /\ messages' = Append(messages, "DOWNLOAD_CAPTURED")
       /\ activeCapture' =
            IF activeCapture # NullTab /\ activeCapture = targetTabId
            THEN NullTab
            ELSE activeCapture

\* onMessage: START_DOWNLOAD_CAPTURE
background_START_DOWNLOAD_CAPTURE ==
  /\ worker = "background/service-worker.js"
  /\ Len(messages) < MaxMessages
  /\ \E tabId \in Tabs \ closedTabs :
       /\ activeCapture' = tabId
       /\ capturedDownloadsByTab' = [capturedDownloadsByTab EXCEPT ![tabId] = <<>>]
  /\ messages' = Append(messages, "START_DOWNLOAD_CAPTURE")
  /\ UNCHANGED <<idleVars, closedTabs, downloadCaptureState, captureTabId, pendingQueries>>

\* onMessage: STOP_DOWNLOAD_CAPTURE
background_STOP_DOWNLOAD_CAPTURE ==
  /\ worker = "background/service-worker.js"
  /\ Len(messages) < MaxMessages
  /\ activeCapture' = NullTab
  /\ messages' = Append(messages, "STOP_DOWNLOAD_CAPTURE")
  /\ UNCHANGED <<idleVars, closedTabs, downloadCaptureState, captureTabId, capturedDownloadsByTab,
                 pendingQueries>>

\* chrome.downloads.onCreated listener
background_onCreated ==
  /\ worker = "background/service-worker.js"
  /\ Len(messages) < MaxMessages
  /\ \E downloadItem \in DownloadItems :
       LET url == downloadItem.url
           targetTabId == IF activeCapture # NullTab /\ activeCapture.type = "number"
                          THEN activeCapture
                          ELSE downloadItem.byExtensionId
       IN IF ~isInstallerUrl(url)
          THEN UNCHANGED <<capturedDownloadsByTab, messages, activeCapture, pendingQueries>>
          ELSE IF targetTabId = UndefinedId
          THEN /\ Cardinality(pendingQueries) < MaxPendingQueries
               /\ pendingQueries' = pendingQueries \cup {Query(url, UndefinedId)}
               /\ UNCHANGED <<capturedDownloadsByTab, messages, activeCapture>>
          ELSE /\ processCapturedDownload(url, targetTabId)
               /\ UNCHANGED pendingQueries
  /\ UNCHANGED <<idleVars, closedTabs, downloadCaptureState, captureTabId>>

\* the browser answers chrome.tabs.query({active: true, currentWindow: true}) with
\* the active tab of that moment, or with no tab
background_tabsQueryAnswer ==
  /\ worker = "background/service-worker.js"
  /\ \E q \in pendingQueries :
       /\ q.tabs = UndefinedId
       /\ \E tabId \in (Tabs \ closedTabs) \cup {NullTab} :
            pendingQueries' = (pendingQueries \ {q}) \cup {Query(q.url, tabId)}
  /\ UNCHANGED <<idleVars, closedTabs, downloadCaptureState, captureTabId, activeCapture,
                 capturedDownloadsByTab, messages>>

\* the callback of chrome.tabs.query runs with the answer
background_tabsQueryCallback ==
  /\ worker = "background/service-worker.js"
  /\ Len(messages) < MaxMessages
  /\ \E q \in pendingQueries :
       /\ q.tabs # UndefinedId
       /\ pendingQueries' = pendingQueries \ {q}
       /\ IF q.tabs # NullTab
            THEN processCapturedDownload(q.url, q.tabs)
            ELSE UNCHANGED <<capturedDownloadsByTab, messages, activeCapture>>
  /\ UNCHANGED <<idleVars, closedTabs, downloadCaptureState, captureTabId>>

\* chrome.tabs.onRemoved listener
background_onRemoved ==
  /\ worker = "background/service-worker.js"
  /\ \E tabId \in Tabs \ closedTabs :
       /\ closedTabs' = closedTabs \cup {tabId}
       /\ capturedDownloadsByTab' = [capturedDownloadsByTab EXCEPT ![tabId] = <<>>]
       /\ activeCapture' =
            IF activeCapture # NullTab /\ activeCapture = tabId THEN NullTab ELSE activeCapture
  /\ UNCHANGED <<idleVars, downloadCaptureState, captureTabId, pendingQueries, messages>>

\* ---- src/unnamed/part_001 (its map is named capturedDownloads) ----

\* handleStartDownloadCapture(message)
handleStartDownloadCapture ==
  /\ worker = "part_001"
  /\ Len(messages) < MaxMessages
  /\ \E tabId \in Tabs \ closedTabs : captureTabId' = tabId
  /\ messages' = Append(messages, "START_DOWNLOAD_CAPTURE")
  /\ UNCHANGED <<idleVars, closedTabs, downloadCaptureState, activeCapture, capturedDownloadsByTab,
                 pendingQueries>>

\* handleStopDownloadCapture()
handleStopDownloadCapture ==
  /\ worker = "part_001"
  /\ Len(messages) < MaxMessages
  /\ captureTabId' = NullTab
  /\ messages' = Append(messages, "STOP_DOWNLOAD_CAPTURE")
  /\ UNCHANGED <<idleVars, closedTabs, downloadCaptureState, activeCapture, capturedDownloadsByTab,
                 pendingQueries>>

\* chrome.downloads.onCreated listener
part001_onCreated ==
  /\ worker = "part_001"
  /\ Len(messages) < MaxMessages
  /\ \E downloadItem \in DownloadItems :
       IF captureTabId = NullTab
       THEN UNCHANGED <<capturedDownloadsByTab, messages>>
       ELSE /\ capturedDownloadsByTab' =
                 [capturedDownloadsByTab EXCEPT ![captureTabId] = Append(@, downloadItem.url)]
            /\ messages' = Append(messages, "DOWNLOAD_CAPTURED")
  /\ UNCHANGED <<idleVars, closedTabs, downloadCaptureState, activeCapture, captureTabId, pendingQueries>>

\* chrome.tabs.onRemoved listener
part001_onRemoved ==
  /\ worker = "part_001"
  /\ \E tabId \in Tabs \ closedTabs :
       /\ closedTabs' = closedTabs \cup {tabId}
       /\ capturedDownloadsByTab' = [capturedDownloadsByTab EXCEPT ![tabId] = <<>>]
       /\ captureTabId' = IF captureTabId = tabId THEN NullTab ELSE captureTabId
  /\ UNCHANGED <<idleVars, downloadCaptureState, activeCapture, pendingQueries, messages>>

NextCapture ==
  \/ serviceWorker_START_DOWNLOAD_CAPTURE
  \/ serviceWorker_STOP_DOWNLOAD_CAPTURE
  \/ serviceWorker_onCreated
  \/ serviceWorker_onRemoved
  \/ background_START_DOWNLOAD_CAPTURE
  \/ background_STOP_DOWNLOAD_CAPTURE
  \/ background_onCreated
  \/ background_tabsQueryAnswer
  \/ background_tabsQueryCallback
  \/ background_onRemoved
  \/ handleStartDownloadCapture
  \/ handleStopDownloadCapture
  \/ part001_onCreated
  \/ part001_onRemoved

SpecCapture == InitCapture /\ [][NextCapture]_vars

(***************************************************************************)
(* Link discovery applied to one page: the two extractRelevantLinks        *)
(* (backend/lib/crawler.js and part_009) on a page of the start host with  *)
(* up to MaxAnchors anchors.                                               *)
(***************************************************************************)
MaxAnchors == 24

AnchorShapes == {"distinct", "repeated", "mixed"}

\* a page with n anchors: all different, every target three times over, or
\* matching targets between off-site, non-matching and malformed ones
PageAnchors(shape, n) ==
  [k \in 1..n |->
     CASE shape = "distinct" -> A(U_doc(k), TRUE)
       [] shape = "repeated" -> A(U_doc(((k - 1) % ((n + 2) \div 3)) + 1), TRUE)
       [] OTHER ->
            CASE k % 4 = 0 -> A(U_offsite, TRUE)
              [] k % 4 = 1 -> A(U_doc(k), TRUE)
              [] k % 4 = 2 -> A(U_doc(k), FALSE)
              [] OTHER -> A(U_doc(k - 2), TRUE)]

InitLinks ==
  /\ IdleRequest
  /\ IdleLicense
  /\ IdleValidator
  /\ IdleCapture
  /\ \E shape \in AnchorShapes, n \in 0..MaxAnchors : linkAnchors = PageAnchors(shape, n)
  /\ linkFn = "none"
  /\ linkResult = <<>>

\* extractRelevantLinks(html, baseUrl) of backend/lib/crawler.js
apply_lib_extractRelevantLinks ==
  /\ linkFn = "none"
  /\ linkFn' = "lib"
  /\ linkResult' = lib_collectLinks(linkAnchors, 1, U_root, <<>>)
  /\ UNCHANGED <<linkAnchors, licVars, reqVars, valVars, crawlVars, capVars, pc, response>>

\* extractRelevantLinks(document, baseUrl, allowedHostname, keywords) of part_009
apply_doc_extractRelevantLinks ==
  /\ linkFn = "none"
  /\ linkFn' = "doc"
  /\ linkResult' = doc_collectLinks(linkAnchors, 1, U_root.host, <<>>)
  /\ UNCHANGED <<linkAnchors, licVars, reqVars, valVars, crawlVars, capVars, pc, response>>

NextLinks ==
  \/ apply_lib_extractRelevantLinks
  \/ apply_doc_extractRelevantLinks

SpecLinks == InitLinks /\ [][NextLinks]_vars

(***************************************************************************)
(* The license service: router.post('/checkLicense') of                    *)
(* backend/routes/license.js over the JSON file database (readDatabase,    *)
(* writeDatabase, findUser, createUser, updateLastSeen).  Each await on    *)
(* the file is a point where another request's handler may run.            *)
(***************************************************************************)
MaxLicenseRequests == 3

UserIds == {"u1", "u2"}
NoUserId == ""

User(userId, requestCount) == [userId |-> userId, requestCount |-> requestCount]

\* db.users.find(u => u.userId === userId): index of the first match, 0 for none
findIndex(users, userId) ==
  IF \E i \in 1..Len(users) : users[i].userId = userId
    THEN CHOOSE i \in 1..Len(users) :
           /\ users[i].userId = userId
           /\ \A k \in 1..(i - 1) : users[k].userId # userId
    ELSE 0

LicenseRequest(userId, hasVersion) ==
  [userId |-> userId, hasVersion |-> hasVersion, at |-> "findUser", db |-> <<>>, status |-> 0]

InFlight == {i \in 1..Len(licenseRequests) : licenseRequests[i].at # "done"}

InitLicense ==
  /\ IdleRequest
  /\ IdleValidator
  /\ IdleCapture
  /\ IdleLinks
  /\ licenseFile = <<>>
  /\ licenseRequests = <<>>

licenseIdle == <<reqVars, valVars, capVars, linkVars, crawlVars, pc, response>>

\* the handler up to its first await: input validation, then findUser is called
checkLicense_Receive ==
  /\ Len(licenseRequests) < MaxLicenseRequests
  /\ \E userId \in UserIds \cup {NoUserId}, hasVersion \in BOOLEAN :
       licenseRequests' =
         Append(licenseRequests,
                IF userId = NoUserId \/ ~hasVersion
                  THEN [LicenseRequest(userId, hasVersion) EXCEPT !.at = "done", !.status = 400]
                  ELSE LicenseRequest(userId, hasVersion))
  /\ UNCHANGED <<licenseIdle, licenseFile>>

\* findUser: readDatabase resolves with the file as it is now
findUser ==
  /\ \E i \in InFlight :
       /\ licenseRequests[i].at = "findUser"
       /\ licenseRequests' =
            [licenseRequests EXCEPT ![i].at =
               IF findIndex(licenseFile, licenseRequests[i].userId) = 0
                 THEN "createUser" ELSE "updateLastSeen"]
  /\ UNCHANGED <<licenseIdle, licenseFile>>

\* createUser: readDatabase resolves, db.users.push(newUser), writeDatabase is called
createUser_read ==
  /\ \E i \in InFlight :
       /\ licenseRequests[i].at = "createUser"
       /\ licenseRequests' =
            [licenseRequests EXCEPT
               ![i].db = Append(licenseFile, User(licenseRequests[i].userId, 1)),
               ![i].at = "createUser_write"]
  /\ UNCHANGED <<licenseIdle, licenseFile>>

\* createUser: fs.writeFile replaces the file with the handler's copy
createUser_write ==
  /\ \E i \in InFlight :
       /\ licenseRequests[i].at = "createUser_write"
       /\ licenseFile' = licenseRequests[i].db
       /\ licenseRequests' = [licenseRequests EXCEPT ![i].at = "respond"]
  /\ UNCHANGED licenseIdle

\* updateLastSeen: readDatabase resolves; if the user is in this copy its requestCount
\* is raised and writeDatabase is called, otherwise nothing is written
updateLastSeen_read ==
  /\ \E i \in InFlight :
       /\ licenseRequests[i].at = "updateLastSeen"
       /\ LET k == findIndex(licenseFile, licenseRequests[i].userId)
          IN licenseRequests' =
               IF k = 0
                 THEN [licenseRequests EXCEPT ![i].at = "respond"]
                 ELSE [licenseRequests EXCEPT
                         ![i].db = [licenseFile EXCEPT ![k].requestCount = @ + 1],
                         ![i].at = "updateLastSeen_write"]
  /\ UNCHANGED <<licenseIdle, licenseFile>>

updateLastSeen_write ==
  /\ \E i \in InFlight :
       /\ licenseRequests[i].at = "updateLastSeen_write"
       /\ licenseFile' = licenseRequests[i].db
       /\ licenseRequests' = [licenseRequests EXCEPT ![i].at = "respond"]
  /\ UNCHANGED licenseIdle

\* res.json(calculateLicenseStatus(user))
checkLicense_Respond ==
  /\ \E i \in InFlight :
       /\ licenseRequests[i].at = "respond"
       /\ licenseRequests' = [licenseRequests EXCEPT ![i].at = "done", ![i].status = 200]
  /\ UNCHANGED <<licenseIdle, licenseFile>>

NextLicense ==
  \/ checkLicense_Receive
  \/ findUser
  \/ createUser_read
  \/ createUser_write
  \/ updateLastSeen_read
  \/ updateLastSeen_write
  \/ checkLicense_Respond

SpecLicense == InitLicense /\ [][NextLicense]_vars

(***************************************************************************)
(* The extension's multi-page crawler (src/unnamed/part_008):              *)
(* handleAnalyzeInstaller -> crawlVendorDocumentation.  The doc pages are  *)
(* fetched by docLinks.map(async ...) and joined with Promise.all.         *)
(***************************************************************************)
MAX_VENDOR_LINKS == 10

T_www == <<"w", "w", "w", ".">>

commonDocPaths == <<"/documentation", "/docs", "/manual", "/help", "/install", "/download", "/faq", "/support">>

docSubdomains ==
  <<<<"d", "o", "c", "s">>,
    <<"d", "o", "c", "u", "m", "e", "n", "t", "a", "t", "i", "o", "n">>,
    <<"h", "e", "l", "p">>,
    <<"s", "u", "p", "p", "o", "r", "t">>,
    <<"w", "i", "k", "i">>>>

\* hostname.replace('www.', ''): the first occurrence is removed
replaceWww(h) ==
  IF Includes(h, T_www)
  THEN LET i == CHOOSE k \in 1..Len(h) :
                  /\ SubSeq(h, k, k + 3) = T_www
                  /\ \A m \in 1..(k - 1) : SubSeq(h, m, m + 3) # T_www
       IN SubSeq(h, 1, i - 1) \o SubSeq(h, i + 4, Len(h))
  ELSE h

\* the anchors kept by the while loop: keyword match, new URL() succeeds,
\* one domain contains the other
RECURSIVE vendor_linked(_, _, _, _)
vendor_linked(anchors, i, base, docLinks) ==
  IF i > Len(anchors) THEN docLinks
  ELSE LET a == anchors[i]
           keep == /\ a.relevant
                   /\ a.href.kind = "url"
                   /\ \/ Includes(replaceWww(a.href.host), replaceWww(base.host))
                      \/ Includes(replaceWww(base.host), replaceWww(a.href.host))
       IN vendor_linked(anchors, i + 1, base, IF keep THEN Append(docLinks, a.href) ELSE docLinks)

\* forEach(... if (!docLinks.some(link => link.url === testUrl)) docLinks.push(...))
RECURSIVE vendor_proactive(_, _, _)
vendor_proactive(testUrls, i, docLinks) ==
  IF i > Len(testUrls) THEN docLinks
  ELSE vendor_proactive(testUrls, i + 1,
         IF Has(docLinks, testUrls[i]) THEN docLinks ELSE Append(docLinks, testUrls[i]))

\* Array.from(new Map(docLinks.map(link => [link.url, link])).values())
RECURSIVE uniqueLinks(_, _, _)
uniqueLinks(docLinks, i, acc) ==
  IF i > Len(docLinks) THEN acc
  ELSE uniqueLinks(docLinks, i + 1, IF Has(acc, docLinks[i]) THEN acc ELSE Append(acc, docLinks[i]))

findDocumentationLinks(w, baseUrl) ==
  LET linked == vendor_linked(Anchors(w, baseUrl), 1, baseUrl, <<>>)
      pathUrls == [k \in 1..Len(commonDocPaths) |->
                     MkUrl(baseUrl.scheme, baseUrl.host, P(commonDocPaths[k], 0))]
      subUrls == [k \in 1..Len(docSubdomains) |->
                    MkUrl("https:", docSubdomains[k] \o T_dot \o baseUrl.host, P("", 0))]
      withPaths == vendor_proactive(pathUrls, 1, linked)
      withSubs == vendor_proactive(subUrls, 1, withPaths)
      unique == uniqueLinks(withSubs, 1, <<>>)
  IN SubSeq(unique, 1, Min(Len(unique), MAX_VENDOR_LINKS))

DocPromise(u, state) == [url |-> u, state |-> state]
Unstarted == {i \in 1..Len(docPromises) : docPromises[i].state = "unstarted"}
Pending == {i \in 1..Len(docPromises) : docPromises[i].state = "pending"}
Fulfilled == {i \in 1..Len(docPromises) : docPromises[i].state = "ok"}

\* docResults.filter(r => r !== null), in link order
RECURSIVE docPages(_, _)
docPages(i, acc) ==
  IF i > Len(docPromises) THEN acc
  ELSE docPages(i + 1, IF docPromises[i].state = "ok"
                         THEN Append(acc, Page(docPromises[i].url, TRUE)) ELSE acc)

(***************************************************************************)
(* part_008: command extraction and selection of the vendor crawl          *)
(***************************************************************************)
\* the silentSwitches list of extractCommandsFromHtml, in source order
vendorSilentSwitches ==
  <<<<"/", "S">>,
    <<"/", "S", "I", "L", "E", "N", "T">>,
    <<"/", "V", "E", "R", "Y", "S", "I", "L", "E", "N", "T">>,
    <<"/", "Q">>,
    <<"/", "Q", "N">>,
    <<"/", "N", "O", "R", "E", "S", "T", "A", "R", "T">>,
    <<"-", "-", "s", "i", "l", "e", "n", "t">>,
    <<"-", "s">>,
    <<"/", "q", "u", "i", "e", "t">>,
    <<"/", "q", "n">>,
    <<"/", "p", "a", "s", "s", "i", "v", "e">>,
    <<"/", "Q", "B">>,
    <<"/", "q", "b">>,
    <<"A", "L", "L", "U", "S", "E", "R", "S", "=", "1">>,
    <<"I", "N", "S", "T", "A", "L", "L", "D", "I", "R", "=">>,
    <<"/", "S", "P", "-">>,
    <<"/", "S", "U", "P", "P", "R", "E", "S", "S", "M", "S", "G", "B", "O", "X", "E", "S">>,
    <<"-", "y">>,
    <<"/", "y">>,
    <<"/", "a", "u", "t", "o">>,
    <<"-", "s", "i", "l", "e", "n", "t">>,
    <<"-", "-", "q", "u", "i", "e", "t">>>>

vendorUninstallSwitches ==
  <<<<"/", "u", "n", "i", "n", "s", "t", "a", "l", "l">>,
    <<"/", "U">>,
    <<"/", "X">>,
    <<"-", "-", "u", "n", "i", "n", "s", "t", "a", "l", "l">>,
    <<"/", "u", "n", "i", "n", "s", "t", "a", "l", "l", ".", "e", "x", "e">>>>

\* switches.some(sw => lowerCmd.includes(sw.toLowerCase()))
hasSwitch(cmd, switches) ==
  \E i \in 1..Len(switches) : Includes(toLowerCase(cmd), toLowerCase(switches[i]))

isInstallCmd(cmd) ==
  \/ Includes(toLowerCase(cmd), S_install)
  \/ Includes(toLowerCase(cmd), S_setup)
  \/ Includes(toLowerCase(cmd), S_msiexec)
  \/ Includes(toLowerCase(cmd), S_exe)
  \/ Includes(toLowerCase(cmd), S_msi)

\* the entries of the switch list found in cmd
switchesIn(cmd) ==
  {i \in 1..Len(vendorSilentSwitches) :
     Includes(toLowerCase(cmd), toLowerCase(vendorSilentSwitches[i]))}

NoCommands ==
  [silentInstall |-> Null, uninstall |-> Null, confidence |-> "low", sourceCommands |-> <<>>,
   detectedSwitches |-> {}]

\* for (const cmd of result.sourceCommands): the longest install command with a silent
\* switch becomes silentInstall, the first command with an uninstall switch uninstall
RECURSIVE scanSourceCommands(_, _, _)
scanSourceCommands(cmds, i, result) ==
  IF i > Len(cmds) THEN result
  ELSE LET cmd == cmds[i]
           longer == /\ hasSwitch(cmd, vendorSilentSwitches)
                     /\ isInstallCmd(cmd)
                     /\ \/ result.silentInstall.isNull
                        \/ Len(cmd) > Len(result.silentInstall.v)
           r1 == IF longer
                   THEN [result EXCEPT !.silentInstall = Str(cmd), !.confidence = "high",
                                       !.detectedSwitches = @ \cup switchesIn(cmd)]
                   ELSE result
           r2 == IF hasSwitch(cmd, vendorUninstallSwitches) /\ r1.uninstall.isNull
                   THEN [r1 EXCEPT !.uninstall = Str(cmd)]
                   ELSE r1
       IN scanSourceCommands(cmds, i + 1, r2)

keptCommand(c) == Len(c) > 5 /\ Len(c) < 500

\* the page's code elements are its source commands; the fragments the looser patterns
\* cut out of the same lines are never longer than the line they come from
extractCommandsFromHtml(lines) ==
  LET sourceCommands == SelectSeq(lines, keptCommand)
  IN scanSourceCommands(sourceCommands, 1, [NoCommands EXCEPT !.sourceCommands = sourceCommands])

\* allPageResults.reduce((best, current) => ..., null)
RECURSIVE bestCommand(_, _, _)
bestCommand(results, i, best) ==
  IF i > Len(results) THEN best
  ELSE LET current == results[i]
       IN bestCommand(results, i + 1,
            IF current.silentInstall.isNull THEN best
            ELSE IF best.isNull THEN [isNull |-> FALSE, v |-> current]
            ELSE IF current.confidence = "high" /\ best.v.confidence # "high"
              THEN [isNull |-> FALSE, v |-> current]
            ELSE IF Cardinality(current.detectedSwitches) > Cardinality(best.v.detectedSwitches)
              THEN [isNull |-> FALSE, v |-> current]
            ELSE IF Len(current.silentInstall.v) > Len(best.v.silentInstall.v)
              THEN [isNull |-> FALSE, v |-> current]
            ELSE best)

\* the extraction results of mainPage and docPages, in crawl order
pageResults(w, ps) == [i \in 1..Len(ps) |-> extractCommandsFromHtml(PageLines(w, ps[i]))]

fileTypeOf(filename) ==
  IF EndsWith(toLowerCase(filename), S_msi) THEN "msi"
  ELSE IF EndsWith(toLowerCase(filename), S_msix) THEN "msix"
  ELSE "exe"

V_genericExeSuffix == <<"\"", " ", "/", "S", " ", "/", "s", "i", "l", "e", "n", "t">>
V_addAppxPrefix == <<"A", "d", "d", "-", "A", "p", "p", "x", "P", "a", "c", "k", "a", "g", "e", " ", "-", "P", "a", "t", "h", " ", "\"">>
V_exeUninstallSuffix == <<"\"", " ", "/", "u", "n", "i", "n", "s", "t", "a", "l", "l", " ", "/", "S">>
V_removeAppx ==
  <<"R", "e", "m", "o", "v", "e", "-", "A", "p", "p", "x", "P", "a", "c", "k", "a", "g", "e", " ", "-", "P", "a", "c", "k", "a", "g", "e", " ", "[", "P", "a", "c", "k", "a", "g", "e", "F", "a", "m", "i", "l", "y", "N", "a", "m", "e", "]">>

FoundWarning == "Command found in vendor documentation"
GenericWarning == "Using generic command - VERIFY with vendor documentation before deployment"

\* generateCommands(filename, crawlResults); best is crawlResults.bestCommand, null when
\* the crawl returned null.  The branch that builds a command from detectedSwitches
\* needs a bestCommand without silentInstall, which the reduce never returns.
generateCommands(filename, best) ==
  LET fileType == fileTypeOf(filename)
      found == ~best.isNull
  IN [silentInstall |->
        IF found THEN best.v.silentInstall.v
        ELSE IF fileType = "msi" THEN S_msiInstallPrefix \o filename \o S_msiInstallSuffix
        ELSE IF fileType = "msix" THEN V_addAppxPrefix \o filename \o S_quote
        ELSE S_quote \o filename \o V_genericExeSuffix,
      uninstall |->
        IF found /\ ~best.v.uninstall.isNull THEN best.v.uninstall.v
        ELSE IF fileType = "msi" THEN S_msiUninstallQuoted \o filename \o S_msiInstallSuffix
        ELSE IF fileType = "msix" THEN V_removeAppx
        ELSE S_quote \o filename \o V_exeUninstallSuffix,
      confidence |-> IF found THEN best.v.confidence ELSE "low",
      warnings |-> IF found THEN <<FoundWarning, "Confidence", "Detected switches">>
                   ELSE <<"No documentation found", GenericWarning>>]

\* generateDetectionRule(filename).type
generateDetectionRule(filename) ==
  IF EndsWith(toLowerCase(filename), S_msi) THEN "MSI"
  ELSE IF EndsWith(toLowerCase(filename), S_msix) \/ EndsWith(toLowerCase(filename), S_appx)
    THEN "MSIX"
  ELSE "file"

\* allCommands: the source commands of every scraped page, without repeats
RECURSIVE allCommands(_, _, _)
allCommands(results, i, acc) ==
  IF i > Len(results) THEN acc
  ELSE allCommands(results, i + 1,
         acc \o SelectSeq(results[i].sourceCommands,
                          LAMBDA c : \A k \in 1..Len(acc) : acc[k] # c))

VendorWebs == {"mixed", "plain"}

InitVendor ==
  /\ endpoint = "vendor"
  /\ \E u \in {U_root, U_file}, f \in {F_setup} :
       req = [url |-> u, installerUrl |-> U_dl("/setup.exe"), filename |-> f,
              maxPages |-> NoMaxPages]
  /\ web \in VendorWebs
  /\ pc = "recv"
  /\ response = NoResponse
  /\ IdleCrawl
  /\ IdleValidator
  /\ IdleCapture
  /\ IdleLinks
  /\ IdleLicense

vendorIdle == <<reqVars, valVars, capVars, linkVars, licVars, budget, visited, queue, cur, attempt, phase, validated,
                fetchError>>

\* handleAnalyzeInstaller up to crawlVendorDocumentation's fetch(pageUrl)
vendor_Receive ==
  /\ endpoint = "vendor" /\ pc = "recv"
  /\ IF Fetchable(req.url)
       THEN /\ inflight' = {req.url}
            /\ log' = Append(log, Ev("fetch", req.url, 0))
            /\ crawlStatus' = "running"
            /\ pc' = "main"
       ELSE \* fetch rejects; the catch block returns null
            /\ crawlStatus' = "threw"
            /\ pc' = "respond"
            /\ UNCHANGED <<inflight, log>>
  /\ UNCHANGED <<vendorIdle, pages, failed, docPromises, response>>

\* the main page's response, findDocumentationLinks, and docLinks.map(...) set up
vendor_MainComplete ==
  /\ endpoint = "vendor" /\ pc = "main"
  /\ inflight' = {}
  /\ \E outcome \in FetchOutcomes :
       IF outcome \in {"ok", "non_html"}
         THEN /\ pages' = <<Page(req.url, outcome = "ok")>>
              /\ docPromises' =
                   LET docLinks == findDocumentationLinks(IF outcome = "ok" THEN web ELSE "leaf",
                                                          req.url)
                   IN [i \in 1..Len(docLinks) |-> DocPromise(docLinks[i], "unstarted")]
              /\ pc' = "map"
              /\ UNCHANGED <<failed, crawlStatus>>
         ELSE /\ failed' = failed \cup {req.url}
              /\ crawlStatus' = "threw"
              /\ pc' = "respond"
              /\ UNCHANGED <<pages, docPromises>>
  /\ UNCHANGED <<vendorIdle, log, response>>

\* docLinks.map(async (link) => { ... fetch(link.url) ... }): each callback runs
\* up to its first await before map moves to the next link
vendor_mapIssue ==
  /\ endpoint = "vendor" /\ pc = "map"
  /\ IF Unstarted # {}
       THEN LET i == CHOOSE k \in Unstarted : \A m \in Unstarted : k <= m
                u == docPromises[i].url
            IN /\ docPromises' = [docPromises EXCEPT ![i].state = "pending"]
               /\ inflight' = IF Fetchable(u) THEN inflight \cup {u} ELSE inflight
               /\ log' = IF Fetchable(u) THEN Append(log, Ev("fetch", u, 0))
                         ELSE Append(log, Ev("reject", u, 0))
               /\ UNCHANGED pc
       ELSE \* await Promise.all(docPromises)
            /\ pc' = "all"
            /\ UNCHANGED <<docPromises, inflight, log>>
  /\ UNCHANGED <<vendorIdle, pages, failed, crawlStatus, response>>

\* the vendor's site serves the pages of the web; a guessed path or subdomain that
\* is not among them answers with an error status or does not answer at all
Served(w, u) == Anchors(w, u) # <<>> \/ Lines(w, u) # <<>>

DocOutcomes(u) ==
  IF ~Fetchable(u) THEN {"net_error"}
  ELSE IF Served(web, u) THEN FetchOutcomes
  ELSE {"http_error", "net_error"}

\* one doc page's fetch settles (or its 5 s timer wins the race)
vendor_docComplete ==
  /\ endpoint = "vendor" /\ pc = "all"
  /\ \E i \in Pending :
       \E outcome \in DocOutcomes(docPromises[i].url) :
         /\ docPromises' =
              [docPromises EXCEPT ![i].state =
                 IF outcome \in {"ok", "non_html"} THEN "ok" ELSE "null"]
         /\ inflight' = inflight \ {docPromises[i].url}
  /\ UNCHANGED <<vendorIdle, pages, failed, log, crawlStatus, pc, response>>

\* Promise.all resolves: docPages, pagesCrawled, scrapedUrls
vendor_PromiseAll ==
  /\ endpoint = "vendor" /\ pc = "all"
  /\ Pending = {}
  /\ pages' = docPages(1, pages)
  /\ crawlStatus' = "returned"
  /\ pc' = "respond"
  /\ UNCHANGED <<vendorIdle, inflight, failed, log, docPromises, response>>

\* handleAnalyzeInstaller: sendResponse({success: true, data: {pagesCrawled, ...}})
vendor_Respond ==
  /\ endpoint = "vendor" /\ pc = "respond"
  /\ LET threw == crawlStatus = "threw"
         results == IF threw THEN <<>> ELSE pageResults(web, pages)
         commands == generateCommands(req.filename,
                                      IF threw THEN Null ELSE bestCommand(results, 1, Null))
         found == allCommands(results, 1, <<>>)
     IN Respond(200, "",
                <<[filename |-> req.filename,
                   installerType |-> fileTypeOf(req.filename),
                   silentInstallCommand |-> Str(commands.silentInstall),
                   uninstallCommand |-> Str(commands.uninstall),
                   detectionRule |-> generateDetectionRule(req.filename),
                   confidence |-> commands.confidence,
                   warnings |-> commands.warnings,
                   pagesCrawled |-> IF threw THEN 0 ELSE Len(pages),
                   commandsFound |-> Len(found),
                   otherCommands |-> SubSeq(found, 1, Min(Len(found), 5)),
                   sourcePages |-> IF threw THEN <<req.url>>
                                   ELSE [i \in 1..Len(pages) |-> pages[i].url]]>>)
  /\ UNCHANGED <<vendorIdle, inflight, pages, failed, log, docPromises, crawlStatus>>

NextVendor ==
  \/ vendor_Receive
  \/ vendor_MainComplete
  \/ vendor_mapIssue
  \/ vendor_docComplete
  \/ vendor_PromiseAll
  \/ vendor_Respond

SpecVendor == InitVendor /\ [][NextVendor]_vars

(***************************************************************************)
(* Properties                                                              *)
(***************************************************************************)
CrawlEndpoints == {"analyze", "route"}
Fetches == {i \in 1..Len(log) : log[i].e = "fetch"}
CrawlEntered == endpoint \in CrawlEndpoints /\ visited # {}
CrawlOver == pc \in {"respond", "done"}

\* C1: every URL a crawl run fetches (the start URL and every discovered
\* link) has passed URL safety validation before the fetch is issued.
C1_FetchOnlyValidated == \A i \in Fetches : log[i].url \in validated

\* a URL that neither validateUrl nor isUrlSafe lets through
FailsValidation(u) == ~validateUrl(u) /\ ~isUrlSafe(u)

\* C2: a request whose page URL or installer URL fails URL safety validation
\* ends in an error result with a reason, and no fetch is made for it.
C2_UnsafeRequestRejected ==
  (/\ pc = "done"
   /\ \/ FailsValidation(req.url)
      \/ endpoint = "server" /\ FailsValidation(req.installerUrl))
  => /\ response.status >= 400
     /\ response.error # ""
     /\ Fetches = {}

\* the blocked literals: localhost, 127.0.0.1, 0.0.0.0, ::1, 169.254., 10.,
\* 172.16. to 172.31., 192.168.
BlockedLiterals ==
  {T_localhost, T_loopback, T_anyaddr, T_ip6loop, T_linklocal, T_ten, T_192168}
  \cup {T_172 \o Dec(n) \o T_dot : n \in 16..31}

HostBlocked(h) == \E b \in BlockedLiterals : h = b \/ StartsWith(h, b)

\* C3: the URL validator returns false for every URL whose hostname equals
\* or starts with a blocked literal.
C3_BlockedLiteralsRejected ==
  (/\ vFn \in {"validateUrl", "isUrlSafe"}
   /\ vInput.kind = "url"
   /\ HostBlocked(vInput.host))
  => vResult = FALSE

\* C4: a crawl run that entered its loop leaves it and returns the page
\* list it collected, on every link graph, cyclic ones included.
C4_CrawlReturnsPageList == (CrawlEntered /\ CrawlOver) => crawlStatus = "returned"

\* C5: with maxPages = N a crawl run marks at most N URLs visited, whether
\* or not their fetches succeed.
C5_VisitsAtMostBudget == CrawlEntered => Cardinality(visited) <= budget

\* C6: whatever maxPages the request carries, the budget handed to the crawl
\* lies between 1 and 10 and the crawl never holds more than 10 pages.
C6_BudgetClamped ==
  /\ Len(pages) <= 10
  /\ (endpoint \in CrawlEndpoints /\ pc \in {"loop", "fetch", "await", "delay"})
       => (budget >= 1 /\ budget <= 10)

C6_Witness ==
  /\ endpoint = "analyze"
  /\ req.maxPages = [t |-> "int", v |-> MaxRequested]
  /\ budget = 10
  /\ Len(pages) = 10
  /\ pc = "done"

\* C7: a failed fetch never raises and never aborts the crawl: the queue is
\* still worked off and the pages collected so far are returned.
C7_FailedFetchSkipped ==
  CrawlEntered =>
    /\ crawlStatus # "threw"
    /\ CrawlOver => (Len(queue) = 0 \/ Len(pages) >= budget)
    /\ (pc = "done" /\ Len(pages) > 0) => response.status = 200

\* C8: when the start page could not be fetched even once the request ends in
\* an error result without any packaging recommendation.
C8_StartPageFailureIsTerminal ==
  (pc = "done" /\ req.url \in failed /\ req.url \notin PageUrls)
  => (response.status >= 400 /\ Len(response.packaging) = 0)

\* C9: an analysis that completes without error returns at least one
\* packaging recommendation, also when no page held a command or a path.
C9_PackagingNeverEmpty ==
  (endpoint \in {"route", "server"} /\ pc = "done" /\ response.status = 200)
  => Len(response.packaging) >= 1

\* no page offered a command for the builder to choose from
NoCandidates ==
  CASE endpoint = "server" ->
         \/ classifyKind(req.filename) # "EXE"
         \/ crawler_extractSilentCommandFromDocs(
              req.filename, Flatten([k \in 1..Len(pages) |-> PageLines(web, pages[k])])).isNull
    [] endpoint = "route" -> Len(extractCommandsFromDocs(pages, web)) = 0
    [] OTHER -> FALSE

\* C10: with no candidates, for every installer kind, the recommendation has
\* an install command, an uninstall command and a detection rule, none of
\* them null, confidence LOW and at least one warning.
C10_FallbackComplete ==
  (pc = "done" /\ response.status = 200 /\ NoCandidates)
  => \A k \in 1..Len(response.packaging) :
       LET r == response.packaging[k]
       IN /\ ~r.silentInstallCommand.isNull
          /\ ~r.uninstallCommand.isNull
          /\ ~r.detectionRule.isNull
          /\ r.confidence.overall \in {"LOW", "low"}
          /\ Len(r.warnings) >= 1

ServerAnswered == endpoint = "server" /\ pc = "done" /\ response.status = 200

\* msiexec /i "<filename>" /qn /norestart
MsiInstallFor(f) ==
  <<"m", "s", "i", "e", "x", "e", "c", " ", "/", "i", " ", "\"">> \o f \o <<"\"", " ", "/", "q", "n", " ", "/", "n", "o", "r", "e", "s", "t", "a", "r", "t">>

\* C11: for a filename ending in .msi the builder returns
\* msiexec /i "<filename>" /qn /norestart and an MSI ProductCode detection
\* rule, and no page was fetched for it (no pages, no source pages).
C11_MsiShortCircuit ==
  (ServerAnswered /\ EndsWith(req.filename, <<".", "m", "s", "i">>))
  => /\ Len(response.packaging) = 1
     /\ response.packaging[1].silentInstallCommand = Str(MsiInstallFor(req.filename))
     /\ response.packaging[1].detectionRule.type = "msi"
     /\ response.packaging[1].sourcePages = <<>>
     /\ Len(pages) = 0
     /\ Fetches = {}

C11_Witness ==
  /\ ServerAnswered
  /\ req.filename = F_app
  /\ Len(response.packaging) = 1
  /\ response.packaging[1].installerType = "MSI"

ArchiveAnswered == ServerAnswered /\ classifyKind(req.filename) = "ARCHIVE"

ExtractionGuidance ==
  "Extract the archive to examine contents and identify the actual installation method."

\* what an archive recommendation has apart from its install command
ArchiveFrame(r) ==
  /\ Len(pages) = 0
  /\ Fetches = {}
  /\ r.uninstallCommand = Str(<<"N", "/", "A">>)
  /\ r.confidence.overall = "N/A"
  /\ \E i \in 1..Len(r.notes) : r.notes[i] = ExtractionGuidance

ExeAnswered ==
  ServerAnswered /\ classifyKind(req.filename) = "EXE" /\ Len(response.packaging) = 1

SilentSwitches == {S_slashS, S_slashSilent, S_verysilent, S_slashQuiet, S_qn}

HasSilentSwitch(cmd) ==
  \E k \in 1..Len(Tokens(cmd)) : toLowerCase(Tokens(cmd)[k]) \in SilentSwitches

NamesInstaller(cmd) == Includes(toLowerCase(cmd), toLowerCase(req.filename))

\* the command the builder falls back on when the pages offer none
IsFallbackCommand(cmd) == cmd = <<"\"">> \o req.filename \o <<"\"", " ", "/", "S">>

\* C13: the install command is HIGH only when the chosen candidate names
\* the installer file and carries a recognized silent switch; a candidate
\* chosen without the filename is MEDIUM and comes with a warning.
C13_HighNeedsFilename ==
  ExeAnswered =>
    LET r == response.packaging[1]
        cmd == r.silentInstallCommand.v
    IN /\ r.confidence.installCommand = "HIGH" => (NamesInstaller(cmd) /\ HasSilentSwitch(cmd))
       /\ (~IsFallbackCommand(cmd) /\ ~NamesInstaller(cmd))
            => (r.confidence.installCommand = "MEDIUM" /\ Len(r.warnings) >= 1)

\* LOW < MEDIUM < HIGH; N/A takes no part in the comparison
ConfidenceRank(c) == CASE c = "LOW" -> 1 [] c = "MEDIUM" -> 2 [] c = "HIGH" -> 3 [] OTHER -> 0

MinConfidence(a, b) ==
  IF ConfidenceRank(a) = 0 THEN b
  ELSE IF ConfidenceRank(b) = 0 THEN a
  ELSE IF ConfidenceRank(a) <= ConfidenceRank(b) THEN a ELSE b

\* C14: the overall confidence is the minimum of the install-command
\* confidence and the detection-rule confidence, so HIGH install with LOW
\* detection is never overall HIGH.
C14_OverallIsMinimum ==
  ServerAnswered =>
    \A k \in 1..Len(response.packaging) :
      LET c == response.packaging[k].confidence
      IN c.overall = MinConfidence(c.installCommand, c.detection)

Answered == endpoint \in {"route", "server"} /\ pc = "done" /\ response.status = 200

IsMsiRecommendation(r) == r.installerType \in {"MSI", "msi"}

\* C15: an MSI installer never gets a heuristic file-path detection rule;
\* its rule is of the ProductCode kind whether or not a GUID was found.
C15_MsiNeverFileRule ==
  Answered =>
    \A k \in 1..Len(response.packaging) :
      LET r == response.packaging[k]
      IN IsMsiRecommendation(r) =>
           /\ ~r.detectionRule.isNull
           /\ r.detectionRule.type \in {"msi", "registry"}
           /\ ~r.detectionRule.heuristic

\* no page offered an uninstall command
NoUninstallCandidate ==
  CASE endpoint = "server" -> TRUE
    [] endpoint = "route" ->
         \A k \in 1..Len(extractCommandsFromDocs(pages, web)) :
           extractCommandsFromDocs(pages, web)[k].inferredRole # "uninstall"
    [] OTHER -> FALSE

ProductCodeInstructions ==
  {"You can find the ProductCode by opening the MSI in Orca or running: Get-AppLockerFileInformation"}

\* C16: for an MSI without an uninstall candidate the uninstall command
\* holds the placeholder {PRODUCT-CODE-GOES-HERE}, the warnings say how to
\* obtain the real ProductCode, and the command is neither missing nor an
\* install command.
C16_MsiUninstallPlaceholder ==
  (Answered /\ NoUninstallCandidate) =>
    \A k \in 1..Len(response.packaging) :
      LET r == response.packaging[k]
      IN IsMsiRecommendation(r) =>
           /\ ~r.uninstallCommand.isNull
           /\ Includes(r.uninstallCommand.v, S_placeholder)
           /\ ~Includes(toLowerCase(r.uninstallCommand.v), S_slashI)
           /\ \E i \in 1..Len(r.warnings) : r.warnings[i] \in ProductCodeInstructions

\* the rule's path was made up from the file name, not read from a page
GuessedPath(r) ==
  /\ ~r.detectionRule.isNull
  /\ r.detectionRule.type = "file"
  /\ ~r.detectionRule.path.isNull
  /\ \/ endpoint = "server" /\ StartsWith(r.detectionRule.path.v, S_programFilesEnv)
     \/ /\ endpoint = "route"
        /\ r.detectionRule.path.v =
             S_programFilesC \o guessAppName(r.filename) \o S_backslash
               \o guessAppName(r.filename) \o S_exe

HeuristicWarnings == {"Heuristic detection rule - verify actual install path"}

\* C17: a detection rule synthesized without documentary evidence is marked
\* heuristic and the warnings of the recommendation say so.
C17_HeuristicRuleFlagged ==
  Answered =>
    \A k \in 1..Len(response.packaging) :
      LET r == response.packaging[k]
      IN GuessedPath(r) =>
           /\ r.detectionRule.heuristic
           /\ \E i \in 1..Len(r.warnings) : r.warnings[i] \in HeuristicWarnings

\* page u holds a line from which the chosen install command was taken
Contributed(u, r) ==
  \E k \in 1..Len(pages) :
    /\ pages[k].url = u
    /\ \E i \in 1..Len(PageLines(web, pages[k])) :
         Includes(PageLines(web, pages[k])[i], r.silentInstallCommand.v)

\* C18: sourcePages lists, once each, only the crawled pages that
\* contributed a candidate used in the answer; a page that contributed
\* nothing is not listed.
C18_SourcePagesContributed ==
  ServerAnswered =>
    \A k \in 1..Len(response.packaging) :
      LET r == response.packaging[k]
      IN /\ Cardinality(Range(r.sourcePages)) = Len(r.sourcePages)
         /\ \A i \in 1..Len(r.sourcePages) : Contributed(r.sourcePages[i], r)

CaptureActive ==
  CASE worker = "service-worker.js" -> downloadCaptureState.active
    [] worker = "background/service-worker.js" -> activeCapture # NullTab
    [] worker = "part_001" -> captureTabId # NullTab
    [] OTHER -> FALSE

CapturedSinceStart ==
  \E i \in 1..Len(messages) :
    /\ messages[i] = "DOWNLOAD_CAPTURED"
    /\ \A j \in (i + 1)..Len(messages) : messages[j] # "START_DOWNLOAD_CAPTURE"

\* C19: once a download has been captured, capture mode is inactive, and it stays inactive
\* through every later stop, download and tab-removal event until the next
\* START_DOWNLOAD_CAPTURE is received.
C19_FirstCaptureEndsSession == CapturedSinceStart => ~CaptureActive

C21_HttpErrorIsTerminal ==
  ~(fetchError = "http_error" /\ pc \in {"backoff", "attempt"})

Attempts == {i \in 1..Len(log) : log[i].e \in {"fetch", "reject"}}
Backoffs == {i \in 1..Len(log) : log[i].e = "backoff"}
FetchFailures == {"http_error", "net_error"}

\* C22: fetchWithRetry makes at most 3 attempts for one URL; attempt n + 1 comes only
\* after attempt n failed and after a wait of 1000 * n ms; a successful attempt is
\* followed by no retry; the third failure is reported without a wait.
C22_RetryDiscipline ==
  endpoint = "server" =>
    /\ \A i \in Attempts : log[i].n \in 1..3
    /\ \A i \in Attempts :
         log[i].n > 1 =>
           /\ i > 2
           /\ log[i - 1] = Ev("backoff", AbsentUrl, log[i].n - 1)
           /\ log[i - 2].e \in {"fetch", "reject"}
           /\ log[i - 2].url = log[i].url
           /\ log[i - 2].n = log[i].n - 1
    /\ \A i \in Backoffs :
         /\ log[i].n < 3
         /\ i > 1 /\ log[i - 1].e \in {"fetch", "reject"} /\ log[i - 1].n = log[i].n
    /\ (pc = "backoff" \/ (pc = "attempt" /\ attempt > 1)) => fetchError \in FetchFailures
    /\ pc \in {"next", "build", "done"} => (Len(log) > 0 => log[Len(log)].e # "backoff")

\* a URL given up after three attempts and two waits, and a page stored afterwards
C22_Witness ==
  /\ endpoint = "server" /\ pc = "done"
  /\ \E i \in Attempts :
       /\ log[i].n = 3 /\ log[i].e = "fetch"
       /\ log[i].url \in failed
       /\ i < Len(log) /\ log[i + 1].e = "fetch" /\ log[i + 1].n = 1
  /\ Len(pages) >= 1

\* C23: between any two fetches issued by one crawl run a wait occurs (the politeness
\* delay, or the retry wait of fetchWithRetry): no two fetches are issued back to back.
C23_DelayBetweenFetches ==
  \A i, j \in Fetches :
    i < j => \E k \in (i + 1)..(j - 1) : log[k].e \in {"delay", "backoff"}

\* C24: within one crawl run at most one page fetch is in flight at any time.
C24_OneFetchInFlight == Cardinality(inflight) <= 1

\* C25: every URL in the crawl queue of shallowCrawl or crawlDocumentation has the
\* hostname of the crawl's start URL and an http or https scheme.
C25_QueueSameHostHttp ==
  endpoint \in CrawlEndpoints =>
    \A i \in 1..Len(queue) :
      /\ queue[i].kind = "url"
      /\ queue[i].host = req.url.host
      /\ queue[i].scheme \in {"http:", "https:"}

FirstAnchor(u) == CHOOSE k \in 1..Len(linkAnchors) :
                    /\ linkAnchors[k].href = u
                    /\ \A m \in 1..(k - 1) : linkAnchors[m].href # u

\* C26: link discovery on one page returns no URL twice, lists the URLs in the order
\* in which each first appears among the page's anchors, and returns at most 20 of them.
C26_LinksDedupedOrderedCapped ==
  linkFn # "none" =>
    /\ \A i, j \in 1..Len(linkResult) : i # j => linkResult[i] # linkResult[j]
    /\ \A i \in 1..Len(linkResult) : \E k \in 1..Len(linkAnchors) : linkAnchors[k].href = linkResult[i]
    /\ \A i, j \in 1..Len(linkResult) :
         i < j => FirstAnchor(linkResult[i]) < FirstAnchor(linkResult[j])
    /\ Len(linkResult) <= 20

RouteAnswered == endpoint = "route" /\ pc = "done" /\ response.status = 200

InstallText(raw) ==
  \/ Includes(toLowerCase(raw), S_slashI)
  \/ Includes(toLowerCase(raw), S_install)
  \/ Includes(toLowerCase(raw), S_setup)

\* the commands found on the crawled pages that read as install commands for r's installer
InstallCandidates(r) ==
  LET cmds == extractCommandsFromDocs(pages, web)
  IN {cmds[i].raw : i \in {k \in 1..Len(cmds) :
                             /\ InstallText(cmds[k].raw)
                             /\ \/ Includes(toLowerCase(cmds[k].raw), toLowerCase(r.filename))
                                \/ cmds[k].type = r.installerType}}

FallbackWarning == "Using heuristic fallback command - verify with vendor documentation"

VendorAnswered == endpoint = "vendor" /\ pc = "done" /\ response.status = 200

\* the commands extracted from the scraped pages that read as install commands
VendorCandidates ==
  LET found == allCommands(pageResults(web, pages), 1, <<>>)
  IN {found[i] : i \in {k \in 1..Len(found) : isInstallCmd(found[k])}}

\* C27: when at least one install command for an installer was extracted from the
\* crawled pages, the silent install command of its recommendation is one of those
\* commands and is not the synthesized fallback (part_003 route and part_008 handler).
C27_CandidatePreferred ==
  /\ RouteAnswered =>
       \A k \in 1..Len(response.packaging) :
         LET r == response.packaging[k]
         IN InstallCandidates(r) # {} =>
              /\ ~r.silentInstallCommand.isNull
              /\ r.silentInstallCommand.v \in InstallCandidates(r)
              /\ FallbackWarning \notin Range(r.warnings)
  /\ VendorAnswered /\ crawlStatus = "returned" =>
       \A k \in 1..Len(response.packaging) :
         LET r == response.packaging[k]
         IN VendorCandidates # {} =>
              /\ r.silentInstallCommand.v \in VendorCandidates
              /\ GenericWarning \notin Range(r.warnings)

UninstallText(raw) ==
  \/ Includes(toLowerCase(raw), S_uninstall)
  \/ Includes(toLowerCase(raw), S_remove)
  \/ Includes(toLowerCase(raw), S_slashX)

RoleByKeywords(raw) ==
  IF UninstallText(raw) THEN "uninstall"
  ELSE IF Includes(toLowerCase(raw), S_install) \/ Includes(toLowerCase(raw), S_setup)
    THEN "install"
  ELSE "other"

\* C28: every command extracted from the crawled pages carries the one role its keywords
\* give it: uninstall for uninstall, remove or /x; install for install or setup without
\* an uninstall keyword; other for the rest.
C28_RoleFromKeywords ==
  RouteAnswered =>
    LET cmds == extractCommandsFromDocs(pages, web)
    IN \A i \in 1..Len(cmds) : cmds[i].inferredRole = RoleByKeywords(cmds[i].raw)

LicenseSettled == licenseRequests # <<>> /\ InFlight = {}
Completed(userId) ==
  Cardinality({i \in 1..Len(licenseRequests) :
                 /\ licenseRequests[i].userId = userId
                 /\ licenseRequests[i].at = "done"
                 /\ licenseRequests[i].status = 200})
Records(userId) == {k \in 1..Len(licenseFile) : licenseFile[k].userId = userId}

\* C29: once every checkLicense request received has been answered, the database holds
\* at most one record per userId, and a user with answered requests has a record whose
\* requestCount is the number of those requests.
C29_NoDuplicateNoLostUpdate ==
  LicenseSettled =>
    \A u \in UserIds :
      /\ Cardinality(Records(u)) <= 1
      /\ Completed(u) > 0 =>
           \E k \in Records(u) : licenseFile[k].requestCount = Completed(u)

\* C30: a closed tab has no captured downloads and is not the target of a capture
\* session, whatever the order of download, tab lookup and tab-removed events.
C30_ClosedTabForgotten ==
  \A tabId \in closedTabs :
    /\ capturedDownloadsByTab[tabId] = <<>>
    /\ downloadCaptureState.tabId # tabId
    /\ activeCapture # tabId
    /\ captureTabId # tabId

====
